---- MODULE Spec2Model ----
(***************************************************************************)
(* A model of the news-llm pipeline: the two queue backends (ListQueue,    *)
(* RedisQueue), the per-name singleton registry (SingletonMeta), the       *)
(* provider call with its retry decorator (BaseLLMProvider.call) and       *)
(* Summarizer.summarize.                                                   *)
(***************************************************************************)
EXTENDS Integers, Sequences, FiniteSets, TLC

(***************************************************************************)
(* Bounds of the model.                                                    *)
(***************************************************************************)
NWorkers == 2
NItems == 2
MaxEnq == 2
MaxTextLen == 5
NScrapers == 3
MaxBatch == 2
MaxIdLen == 2
NRecords == 2
MaxCalls == 2
MaxOps == 6
MaxSegments == 3
MaxObjs == 2
MaxHandleOps == 4

Workers == 1..NWorkers
Items == 1..NItems

\* Python's None, the empty-marker returned by dequeue() (items are 1..NItems).
None == 0

VARIABLES
    backend,    \* which queue class the instance under study is: "list" | "redis"
    store,      \* ListQueue.queue (the deque) or the Redis list under queue_name
    pc,         \* per worker: position inside dequeue() / dequeue_generator()
    gen,        \* per worker: its generator: "none" | "running" | "ended" | "raised"
    enqueued,   \* history: the items enqueued, in enqueue order
    taken,      \* history: the items removed and handed to a consumer, in order
    cleared,    \* history: clear() has been called
    sole        \* history, per worker: its generator began on a queue nothing had
                \* been taken from, and nothing but that generator has used the
                \* queue since

qvars == <<backend, store, pc, gen, enqueued, taken, cleared, sole>>

VARIABLES
    instances,  \* SingletonMeta._instances: (class, key) -> instance
    objs,       \* the queue objects whose __init__ has completed
    returned    \* history: what each constructor call asked for and was given

svars == <<instances, objs, returned>>

VARIABLES
    provider,   \* Summarizer.provider: "base" (BaseLLMProvider.call) or a "stub"
    model,      \* the model_name asked for
    catalog,    \* the names the provider's models.list() gives
    ppc,        \* position inside provider.call under its retry decorator
    attempts,   \* attempts of call begun
    checks,     \* times the catalog has been listed
    genCalls,   \* times chat.completions.create has been invoked
    slept,      \* the backoff waits slept, in order
    excs,       \* the exception each failed attempt ended with, in order
    genFailedAt,\* the attempt whose generation request raised; 0 when none has
    callOut,    \* what provider.call handed to its caller
    result      \* what summarize handed to its caller

pvars == <<provider, model, catalog, ppc, attempts, checks, genCalls, slept,
           excs, genFailedAt, callOut, result>>

VARIABLES
    text,       \* the argument of a call of normalize_text
    normalizedText  \* what that call gave

tvars == <<text, normalizedText>>

VARIABLES
    limit,      \* ScraperFactory.scrape: the limit argument, None or a count
    scrapePc,   \* position inside ScraperFactory.scrape: "idle" | "loop" | "done"
    ran,        \* history: what _scrape did for each scraper run so far
    news_list,  \* ScraperFactory.scrape: the list being accumulated
    scrapeOut   \* what ScraperFactory.scrape handed to its caller

cvars == <<limit, scrapePc, ran, news_list, scrapeOut>>

VARIABLES
    newsA,      \* a News
    newsB,      \* another News
    compared    \* what newsA == newsB, hash(newsA) and hash(newsB) gave

nvars == <<newsA, newsB, compared>>

VARIABLES
    webhook_url,  \* SlackDispatchChannel.webhook_url: "" when not configured
    network,      \* whether requests.post gets through: "up" | "down"
    stage,        \* per record: the stage of the pipeline that holds it
    newsSummary,  \* per record: News.summary, None until one is attached
    summarized,   \* history: the records that went through summarize
    sendOut,      \* per record: what SlackDispatchChannel.send gave
    posted        \* the payloads requests.post transmitted, in order

dvars == <<webhook_url, network, stage, newsSummary, summarized, sendOut, posted>>

VARIABLES
    chanCalls   \* history: the calls of send and receive made on channels

kvars == <<chanCalls>>

VARIABLES
    QUEUE_CLASSES,   \* factory.py: the registry of queue classes by queue type
    redis_queue_url, \* the environment variable REDIS_QUEUE_URL
    factoryCalls,    \* history: the calls of get_queue, in order
    imported         \* factory.py as a module: "no" (not imported yet) | "ok" |
                     \* "AttributeError" (its import raised)

fvars == <<QUEUE_CLASSES, redis_queue_url, factoryCalls, imported>>

VARIABLES
    calls,      \* history: the method calls made on the queue, in order, each
                \* with its argument, its result and size() after it
    iter        \* the generator dequeue_generator() returned: "none" |
                \* "suspended" | "exhausted"

mvars == <<calls, iter>>

VARIABLES
    providerCalls \* history: the calls of ProviderFactory.get_provider, in order

gvars == <<providerCalls>>

VARIABLES
    segments,   \* the pieces the argument of a call of extract_json is written of
    extractOut   \* what that call gave

xvars == <<segments, extractOut>>

VARIABLES
    redisCalls,    \* history: the constructor calls RedisQueue(queue_name, url)
    redisCommands  \* history: the first commands sent by the RedisQueue objects

rvars == <<redisCalls, redisCommands>>

VARIABLES
    ctorPc,     \* per worker: position inside SingletonMeta.__call__: "idle" |
                \* "init" | "store" | "return"
    ctorLocal,  \* per worker: the locals of its call of SingletonMeta.__call__
    queues,     \* per ListQueue object: its attribute queue (the deque)
    handleOps   \* history: the constructor and method calls made through the
                \* handles, in order

hvars == <<ctorPc, ctorLocal, queues, handleOps>>

vars == <<qvars, svars, pvars, tvars, cvars, nvars, dvars, kvars, fvars, mvars, gvars, xvars, rvars, hvars>>

\* what the operations of each part leave alone
notQueue == <<svars, pvars, tvars, cvars, nvars, dvars, kvars, fvars, mvars, gvars, xvars, rvars, hvars>>
notSingleton == <<qvars, pvars, tvars, cvars, nvars, dvars, kvars, fvars, mvars, gvars, xvars, rvars, hvars>>
notProvider == <<qvars, svars, tvars, cvars, nvars, dvars, kvars, fvars, mvars, gvars, xvars, rvars, hvars>>
notText == <<qvars, svars, pvars, cvars, nvars, dvars, kvars, fvars, mvars, gvars, xvars, rvars, hvars>>
\* ScraperFactory.scrape enqueues: of the queue it touches the store only
notScrape ==
    <<backend, pc, gen, enqueued, taken, cleared, sole, svars, pvars, tvars, nvars,
      dvars, kvars, fvars, mvars, gvars, xvars, rvars, hvars>>
notNews == <<qvars, svars, pvars, tvars, cvars, dvars, kvars, fvars, mvars, gvars, xvars, rvars, hvars>>
\* the pipeline enqueues and dequeues: of the queue it touches the store only
notPipeline ==
    <<backend, pc, gen, enqueued, taken, cleared, sole, svars, pvars, tvars, cvars,
      nvars, kvars, fvars, mvars, gvars, xvars, rvars, hvars>>
notChannel == <<qvars, svars, pvars, tvars, cvars, nvars, dvars, fvars, mvars, gvars, xvars, rvars, hvars>>
\* get_queue constructs queue objects: it touches the singleton registry
notFactory == <<qvars, pvars, tvars, cvars, nvars, dvars, kvars, mvars, gvars, xvars, rvars, hvars>>
\* a method call on the queue touches the store only
notCalls ==
    <<pc, gen, enqueued, taken, cleared, sole, svars, pvars, tvars, cvars, nvars,
      dvars, kvars, fvars, gvars, xvars, rvars, hvars>>

\* get_provider touches nothing but its own history
notProviderFactory ==
    <<qvars, svars, pvars, tvars, cvars, nvars, dvars, kvars, fvars, mvars, xvars, rvars, hvars>>
\* extract_json touches nothing but its result
notExtract ==
    <<qvars, svars, pvars, tvars, cvars, nvars, dvars, kvars, fvars, mvars, gvars,
      rvars, hvars>>
\* a RedisQueue constructor call touches the singleton registry
notRedis ==
    <<qvars, pvars, tvars, cvars, nvars, dvars, kvars, fvars, mvars, gvars, xvars, hvars>>

\* a constructor call and a method call through a handle touch the singleton
\* registry and the objects' deques
notHandles ==
    <<qvars, pvars, tvars, cvars, nvars, dvars, kvars, fvars, mvars, gvars, xvars, rvars>>

(***************************************************************************)
(* Sequence helpers.                                                       *)
(***************************************************************************)
IsPrefix(s, t) == Len(s) <= Len(t) /\ SubSeq(t, 1, Len(s)) = s

Count(s, x) == Cardinality({i \in DOMAIN s : s[i] = x})

\* the values of the entries of `taken` that satisfy via \in vias, in order
RECURSIVE TakenVia(_, _)
TakenVia(t, vias) ==
    IF t = <<>> THEN <<>>
    ELSE IF Head(t).via \in vias
         THEN <<Head(t).val>> \o TakenVia(Tail(t), vias)
         ELSE TakenVia(Tail(t), vias)

Take(via, v) == [via |-> via, val |-> v]

\* every generator but w's (or every generator, with w = None) has seen
\* another user of the queue
NotSole(w) == [u \in Workers |-> sole[u] /\ u = w]

(***************************************************************************)
(* The primitives the backends are written with. A pop gives the element   *)
(* removed (item) and the collection left (rest).                          *)
(***************************************************************************)
Popped(i, r) == [item |-> i, rest |-> r]

\* collections.deque.append(item)
DequeAppend(q, x) == Append(q, x)

\* collections.deque.popleft(), on a deque that is not empty
DequePopLeft(q) == Popped(Head(q), Tail(q))

\* redis LPUSH key item: the item becomes the new head (left end) of the list
RedisLPush(l, x) == <<x>> \o l

\* redis RPOP key: the tail (right end) of the list, None on an empty list
RedisRPop(l) ==
    IF l = <<>> THEN Popped(None, l) ELSE Popped(l[Len(l)], SubSeq(l, 1, Len(l) - 1))

\* redis LPOP key: the head (left end) of the list, None on an empty list
RedisLPop(l) ==
    IF l = <<>> THEN Popped(None, l) ELSE Popped(Head(l), Tail(l))

(***************************************************************************)
(* What each backend method does to the collection.                        *)
(***************************************************************************)
\* ListQueue.enqueue: self.queue.append(item)
ListEnqueueStore(q, x) == DequeAppend(q, x)

C4_Mut_ListDequeuePop(q) == Popped(Head(q), q)

\* ListQueue.dequeue: item = self.queue.popleft()
ListDequeuePopped(q) == DequePopLeft(q)

\* RedisQueue.enqueue: self.client.lpush(self.queue_name, item)
RedisEnqueueStore(l, x) == RedisLPush(l, x)

C1_Mut_RedisDequeuePopped(l) == RedisLPop(l)

\* RedisQueue.dequeue: item = self.client.rpop(self.queue_name)
RedisDequeuePopped(l) == RedisRPop(l)

\* RedisQueue.dequeue_generator: item = self.client.lpop(self.queue_name)
RedisGenPopped(l) == RedisLPop(l)

\* the model's bound on the number of enqueue calls
CanEnqueue == Len(enqueued) < MaxEnq

\* dequeue() returns to its caller, or to the generator that yields the value
Via(w) == IF gen[w] = "running" THEN "gen" ELSE "deq"
AfterReturn(w) == IF gen[w] = "running" THEN "gen_test" ELSE "idle"

(***************************************************************************)
(* ListQueue: each step is one access to self.queue; another worker may    *)
(* run between two steps.                                                  *)
(***************************************************************************)
ListEnqueue(w, x) ==
    /\ backend = "list" /\ UNCHANGED notQueue /\ pc[w] = "idle" /\ CanEnqueue
    /\ store' = ListEnqueueStore(store, x)
    /\ enqueued' = Append(enqueued, x)
    /\ sole' = NotSole(None)
    /\ UNCHANGED <<backend, pc, gen, taken, cleared>>

\* dequeue(), called by a worker or by the generator: if not self.queue: return None
ListDequeueCheck(w) ==
    /\ backend = "list" /\ UNCHANGED notQueue
    /\ pc[w] \in {"idle", "dq_check"}
    /\ IF store = <<>>
       THEN pc' = [pc EXCEPT ![w] = AfterReturn(w)]
       ELSE pc' = [pc EXCEPT ![w] = "dq_pop"]
    /\ UNCHANGED <<backend, store, gen, enqueued, taken, cleared, sole>>

\* dequeue(): item = self.queue.popleft(); return item
\* popleft() on a deque emptied in the meantime raises IndexError, which
\* leaves dequeue() and, inside a generator, ends the generator.
ListDequeuePop(w) ==
    /\ backend = "list" /\ UNCHANGED notQueue /\ pc[w] = "dq_pop"
    /\ IF store = <<>>
       THEN /\ pc' = [pc EXCEPT ![w] = "idle"]
            /\ gen' = [gen EXCEPT ![w] = IF @ = "running" THEN "raised" ELSE @]
            /\ UNCHANGED <<store, taken, sole>>
       ELSE /\ taken' = Append(taken, Take(Via(w), ListDequeuePopped(store).item))
            /\ store' = ListDequeuePopped(store).rest
            /\ pc' = [pc EXCEPT ![w] = AfterReturn(w)]
            /\ sole' = NotSole(IF gen[w] = "running" THEN w ELSE None)
            /\ gen' = gen
    /\ UNCHANGED <<backend, enqueued, cleared>>

\* dequeue_generator() is called; nothing runs until the first element is asked for
ListGenStart(w) ==
    /\ backend = "list" /\ UNCHANGED notQueue /\ pc[w] = "idle"
    /\ pc' = [pc EXCEPT ![w] = "gen_test"]
    /\ gen' = [gen EXCEPT ![w] = "running"]
    /\ sole' = [sole EXCEPT ![w] = taken = <<>> /\ ~cleared]
    /\ UNCHANGED <<backend, store, enqueued, taken, cleared>>

\* dequeue_generator(): while self.queue: yield self.dequeue()
ListGenTest(w) ==
    /\ backend = "list" /\ UNCHANGED notQueue /\ pc[w] = "gen_test"
    /\ IF store = <<>>
       THEN /\ pc' = [pc EXCEPT ![w] = "idle"]
            /\ gen' = [gen EXCEPT ![w] = "ended"]
       ELSE /\ pc' = [pc EXCEPT ![w] = "dq_check"]
            /\ gen' = gen
    /\ UNCHANGED <<backend, store, enqueued, taken, cleared, sole>>

\* clear(): self.queue.clear()
ListClear(w) ==
    /\ backend = "list" /\ UNCHANGED notQueue /\ pc[w] = "idle"
    /\ store' = <<>>
    /\ cleared' = TRUE
    /\ sole' = NotSole(None)
    /\ UNCHANGED <<backend, pc, gen, enqueued, taken>>

(***************************************************************************)
(* RedisQueue: every method is one command, which the server runs          *)
(* atomically.                                                             *)
(***************************************************************************)
RedisEnqueue(w, x) ==
    /\ backend = "redis" /\ UNCHANGED notQueue /\ pc[w] = "idle" /\ CanEnqueue
    /\ store' = RedisEnqueueStore(store, x)
    /\ enqueued' = Append(enqueued, x)
    /\ sole' = NotSole(None)
    /\ UNCHANGED <<backend, pc, gen, taken, cleared>>

\* dequeue(): item = self.client.rpop(self.queue_name); return item
RedisDequeue(w) ==
    /\ backend = "redis" /\ UNCHANGED notQueue /\ pc[w] = "idle"
    /\ LET item == RedisDequeuePopped(store).item IN
       /\ store' = RedisDequeuePopped(store).rest
       /\ taken' = IF item = None THEN taken ELSE Append(taken, Take("deq", item))
       /\ sole' = IF item = None THEN sole ELSE NotSole(None)
    /\ UNCHANGED <<backend, pc, gen, enqueued, cleared>>

RedisGenStart(w) ==
    /\ backend = "redis" /\ UNCHANGED notQueue /\ pc[w] = "idle"
    /\ pc' = [pc EXCEPT ![w] = "gen_test"]
    /\ gen' = [gen EXCEPT ![w] = "running"]
    /\ sole' = [sole EXCEPT ![w] = taken = <<>> /\ ~cleared]
    /\ UNCHANGED <<backend, store, enqueued, taken, cleared>>

\* dequeue_generator(): item = lpop(...); if item is None: break; yield item
RedisGenPull(w) ==
    /\ backend = "redis" /\ UNCHANGED notQueue /\ pc[w] = "gen_test"
    /\ LET item == RedisGenPopped(store).item IN
       IF item = None
       THEN /\ pc' = [pc EXCEPT ![w] = "idle"]
            /\ gen' = [gen EXCEPT ![w] = "ended"]
            /\ UNCHANGED <<store, taken, sole>>
       ELSE /\ taken' = Append(taken, Take("gen", item))
            /\ store' = RedisGenPopped(store).rest
            /\ sole' = NotSole(w)
            /\ UNCHANGED <<pc, gen>>
    /\ UNCHANGED <<backend, enqueued, cleared>>

\* clear(): self.client.delete(self.queue_name)
RedisClear(w) ==
    /\ backend = "redis" /\ UNCHANGED notQueue /\ pc[w] = "idle"
    /\ store' = <<>>
    /\ cleared' = TRUE
    /\ sole' = NotSole(None)
    /\ UNCHANGED <<backend, pc, gen, enqueued, taken>>

(***************************************************************************)
(* The methods of a queue as whole calls, one caller at a time: what each  *)
(* returns and what it leaves in the collection.                           *)
(***************************************************************************)
\* the end of a generator (next() raises StopIteration)
StopIteration == -1
\* deque.popleft() on an empty deque raises IndexError
IndexError == -2

C21_Mut_ListIsEmpty(q) == FALSE

\* ListQueue.dequeue: if not self.queue
ListIsEmpty(q) == q = <<>>

\* ListQueue.dequeue: None on an empty deque, else popleft()
ListDequeue(q) ==
    IF ListIsEmpty(q) THEN Popped(None, q)
    ELSE IF q = <<>> THEN Popped(IndexError, q)
    ELSE ListDequeuePopped(q)

Enqueued(b, q, x) == IF b = "list" THEN ListEnqueueStore(q, x) ELSE RedisEnqueueStore(q, x)

Dequeued(b, q) == IF b = "list" THEN ListDequeue(q) ELSE RedisDequeuePopped(q)

C23_Mut_ListGenContinues(q) == Len(q) > 1

\* ListQueue.dequeue_generator: while self.queue
ListGenContinues(q) == q # <<>>

\* one next() of the generator: ListQueue yields self.dequeue() while the
\* deque is not empty; RedisQueue yields lpop() until it gives None
Pulled(b, q) ==
    IF b = "list"
    THEN IF ListGenContinues(q) THEN ListDequeue(q) ELSE Popped(StopIteration, q)
    ELSE IF RedisGenPopped(q).item = None THEN Popped(StopIteration, q)
         ELSE RedisGenPopped(q)

C24_Mut_Resumed(st, b, q) == Pulled(b, q)

\* next() of a generator that has ended raises StopIteration and runs nothing
Resumed(st, b, q) ==
    IF st = "exhausted" THEN Popped(StopIteration, q) ELSE Pulled(b, q)

C25_Mut_Size(b, q) == IF b = "list" THEN Len(q) ELSE IF q = <<>> THEN 0 ELSE 1

\* size(): len(self.queue), llen(queue_name)
Size(b, q) == Len(q)

\* clear(): self.queue.clear(), delete(queue_name)
Cleared(b, q) == <<>>

Call(op, arg, ret, q) == [op |-> op, arg |-> arg, ret |-> ret, size |-> Size(backend, q)]

CanCall == Len(calls) < MaxOps

CallEnqueue(x) ==
    /\ UNCHANGED notCalls /\ CanCall
    /\ store' = Enqueued(backend, store, x)
    /\ calls' = Append(calls, Call("enqueue", x, None, store'))
    /\ UNCHANGED <<backend, iter>>

CallDequeue ==
    /\ UNCHANGED notCalls /\ CanCall
    /\ store' = Dequeued(backend, store).rest
    /\ calls' = Append(calls, Call("dequeue", None, Dequeued(backend, store).item, store'))
    /\ UNCHANGED <<backend, iter>>

CallClear ==
    /\ UNCHANGED notCalls /\ CanCall
    /\ store' = Cleared(backend, store)
    /\ calls' = Append(calls, Call("clear", None, None, store'))
    /\ UNCHANGED <<backend, iter>>

\* dequeue_generator(): the generator object is made, none of its body runs
CallGenerator ==
    /\ UNCHANGED notCalls /\ CanCall
    /\ iter = "none"
    /\ iter' = "suspended"
    /\ calls' = Append(calls, Call("generator", None, None, store))
    /\ UNCHANGED <<backend, store>>

\* next() of the generator; an exhausted generator raises StopIteration again
CallNext ==
    /\ UNCHANGED notCalls /\ CanCall
    /\ iter # "none"
    /\ LET p == Resumed(iter, backend, store)
       IN /\ store' = p.rest
          /\ calls' = Append(calls, Call("next", None, p.item, store'))
          /\ iter' = IF p.item \in {StopIteration, IndexError} THEN "exhausted" ELSE iter
    /\ UNCHANGED backend

CallsStart == calls = <<>> /\ iter = "none"

CallsStep ==
    \/ \E x \in Items : CallEnqueue(x)
    \/ CallDequeue
    \/ CallClear
    \/ CallGenerator
    \/ CallNext

(***************************************************************************)
(* The queue specification: one instance of either backend, shared by the  *)
(* workers.                                                                *)
(***************************************************************************)
QueueStart ==
    /\ store = <<>>
    /\ pc = [w \in Workers |-> "idle"]
    /\ gen = [w \in Workers |-> "none"]
    /\ enqueued = <<>>
    /\ taken = <<>>
    /\ cleared = FALSE
    /\ sole = [w \in Workers |-> FALSE]

QueueInit == backend \in {"list", "redis"} /\ QueueStart

QueueStep ==
    \E w \in Workers :
        \/ \E x \in Items : ListEnqueue(w, x)
        \/ ListDequeueCheck(w)
        \/ ListDequeuePop(w)
        \/ ListGenStart(w)
        \/ ListGenTest(w)
        \/ ListClear(w)
        \/ \E x \in Items : RedisEnqueue(w, x)
        \/ RedisDequeue(w)
        \/ RedisGenStart(w)
        \/ RedisGenPull(w)
        \/ RedisClear(w)

(***************************************************************************)
(* SingletonMeta: the registry of queue instances, keyed by (class, key).  *)
(***************************************************************************)
QueueClasses == {"ListQueue", "RedisQueue"}
QueueNames == {"", "a", "b"}
ArgForms == {"positional", "keyword", "omitted"}
\* the url RedisQueue.__init__ receives: the one passed, or Config.REDIS_QUEUE_URL
Urls == {"unset", "valid"}

NoKwargs == [k \in {} |-> ""]

\* the arguments of cls(name), cls(queue_name=name) and cls()
CallArgs(form, name) == IF form = "positional" THEN <<name>> ELSE <<>>
CallKwargs(form, name) ==
    IF form = "keyword" THEN [k \in {"queue_name"} |-> name] ELSE NoKwargs

\* the name the caller asks for: cls() asks for the default, the empty name
AskedName(form, name) == IF form = "omitted" THEN "" ELSE name

C3_Mut_SingletonKey(args, kwargs) == IF args # <<>> THEN args[1] ELSE ""

\* key = args[0] if args else kwargs.get("queue_name", "")
SingletonKey(args, kwargs) ==
    IF args # <<>> THEN args[1]
    ELSE IF "queue_name" \in DOMAIN kwargs THEN kwargs["queue_name"] ELSE ""

\* AbstractQueue.__init__(queue_name=""): the parameter, bound by position,
\* by keyword, or to its default
InitQueueName(args, kwargs) ==
    IF args # <<>> THEN args[1]
    ELSE IF "queue_name" \in DOMAIN kwargs THEN kwargs["queue_name"] ELSE ""

\* RedisQueue.__init__: redis.from_url(url) raises on a url that is not set;
\* ListQueue.__init__ cannot fail
InitRaises(cls, url) == cls = "RedisQueue" /\ url = "unset"

\* a new object: objects are told apart by class, queue_name and a serial
\* number among the objects of that class and queue_name
NewObj(cls, qn) ==
    [cls |-> cls, queue_name |-> qn,
     serial |-> 1 + Cardinality({o \in objs : o.cls = cls /\ o.queue_name = qn})]

Registered(cls, key) == <<cls, key>> \in DOMAIN instances

\* SingletonMeta.__call__(cls, *args, **kwargs)
Construct(cls, form, name, url) ==
    LET args == CallArgs(form, name)
        kwargs == CallKwargs(form, name)
        key == SingletonKey(args, kwargs)
        obj == NewObj(cls, InitQueueName(args, kwargs))
        asked == [cls |-> cls, name |-> AskedName(form, name), form |-> form]
    IN
    IF Registered(cls, key)
    THEN \* return cls._instances[(cls, key)]
         /\ returned' = returned \cup {[asked |-> asked, inst |-> instances[<<cls, key>>]]}
         /\ UNCHANGED <<instances, objs>>
    ELSE IF InitRaises(cls, url)
    THEN \* super().__call__ raised: nothing is stored, nothing is returned
         UNCHANGED <<instances, objs, returned>>
    ELSE \* instance = super().__call__(...); cls._instances[(cls, key)] = instance
         /\ objs' = objs \cup {obj}
         /\ instances' = [k \in DOMAIN instances \cup {<<cls, key>>} |->
                            IF k = <<cls, key>> THEN obj ELSE instances[k]]
         /\ returned' = returned \cup {[asked |-> asked, inst |-> obj]}

\* no queue object
NoObj == [cls |-> "", queue_name |-> "", serial |-> 0]

\* the instance a call QueueClass(queue_name=name) is given: the one
\* registered under (class, name) once the call is over
Given(cls, name, reg) ==
    IF <<cls, name>> \in DOMAIN reg THEN reg[<<cls, name>>] ELSE NoObj

SingletonStart ==
    /\ instances = [k \in {} |-> None]
    /\ objs = {}
    /\ returned = {}

SingletonStep ==
    \E cls \in QueueClasses, form \in ArgForms, name \in QueueNames, url \in Urls :
        /\ form = "omitted" => name = ""
        /\ cls = "ListQueue" => url = "valid"
        /\ Construct(cls, form, name, url)
        /\ UNCHANGED notSingleton

(***************************************************************************)
(* Queue objects in use: the callers of the constructors hold the instance *)
(* they were given (a handle) and call its methods. Each ListQueue object  *)
(* has its own deque, made by ListQueue.__init__.                          *)
(***************************************************************************)
CtorNames == {"", "a"}
Serials == 1..MaxObjs

\* collections.deque()
Deque == <<>>

NoCall == [cls |-> "", key |-> "", name |-> "", instance |-> NoObj]

\* the queue objects that were given to a caller
Handles == {r.inst : r \in returned}

Obj(cls, name, n) == [cls |-> cls, queue_name |-> name, serial |-> n]

WithQueue(qs, o, q) ==
    [p \in DOMAIN qs \cup {o} |-> IF p = o THEN q ELSE qs[p]]

HandleOp(op, o, v) == [op |-> op, obj |-> o, val |-> v]

CanUse == Len(handleOps) < MaxHandleOps

C32_Mut_QueueAfterCall(registered, q) == Deque

\* the deque of the instance a call ListQueue(...) gives: __init__
\* (self.queue = deque()) runs inside super().__call__, which is called when
\* (cls, key) is not registered
QueueAfterCall(registered, q) == IF registered THEN q ELSE Deque

\* ListQueue(...) as one call, no other caller running meanwhile
ConstructHandle(form, name) ==
    LET key == SingletonKey(CallArgs(form, name), CallKwargs(form, name))
        was == Registered("ListQueue", key)
        given == Given("ListQueue", key, instances')
    IN /\ UNCHANGED notHandles /\ CanUse
       /\ form = "omitted" => name = ""
       /\ Construct("ListQueue", form, name, "valid")
       /\ queues' = WithQueue(queues, given,
                        QueueAfterCall(was, IF was THEN queues[given] ELSE Deque))
       /\ handleOps' = Append(handleOps, HandleOp("construct", given, None))
       /\ UNCHANGED <<ctorPc, ctorLocal>>

\* handle.enqueue(x) on a ListQueue
HandleEnqueue(name, n, x) ==
    LET o == Obj("ListQueue", name, n) IN
    /\ UNCHANGED notHandles /\ CanUse
    /\ o \in Handles
    /\ queues' = [queues EXCEPT ![o] = ListEnqueueStore(@, x)]
    /\ handleOps' = Append(handleOps, HandleOp("enqueue", o, x))
    /\ UNCHANGED <<svars, ctorPc, ctorLocal>>

\* handle.dequeue() on a ListQueue
HandleDequeue(name, n) ==
    LET o == Obj("ListQueue", name, n) IN
    /\ UNCHANGED notHandles /\ CanUse
    /\ o \in Handles
    /\ queues' = [queues EXCEPT ![o] = ListDequeue(@).rest]
    /\ handleOps' = Append(handleOps, HandleOp("dequeue", o, ListDequeue(queues[o]).item))
    /\ UNCHANGED <<svars, ctorPc, ctorLocal>>

(***************************************************************************)
(* SingletonMeta.__call__ line by line, called by several workers: another *)
(* worker may run between two lines.                                       *)
(***************************************************************************)
\* the model's bound on the number of queue objects made
CanConstruct ==
    Cardinality(objs) + Cardinality({w \in Workers : ctorPc[w] = "init"}) < MaxObjs

\* key = args[0] if args else kwargs.get("queue_name", "")
\* if (cls, key) not in cls._instances:
CtorCheck(w, cls, name) ==
    LET key == SingletonKey(CallArgs("positional", name), CallKwargs("positional", name))
    IN /\ UNCHANGED notHandles /\ ctorPc[w] = "idle"
       /\ ~Registered(cls, key) => CanConstruct
       /\ ctorLocal' = [ctorLocal EXCEPT ![w] =
                           [cls |-> cls, key |-> key, name |-> name, instance |-> NoObj]]
       /\ ctorPc' = [ctorPc EXCEPT ![w] = IF Registered(cls, key) THEN "return" ELSE "init"]
       /\ UNCHANGED <<svars, queues, handleOps>>

\* instance = super().__call__(*args, **kwargs)
CtorInit(w) ==
    LET c == ctorLocal[w]
        obj == NewObj(c.cls, InitQueueName(CallArgs("positional", c.name),
                                           CallKwargs("positional", c.name)))
    IN /\ UNCHANGED notHandles /\ ctorPc[w] = "init"
       /\ objs' = objs \cup {obj}
       /\ queues' = IF c.cls = "ListQueue" THEN WithQueue(queues, obj, Deque) ELSE queues
       /\ ctorLocal' = [ctorLocal EXCEPT ![w].instance = obj]
       /\ ctorPc' = [ctorPc EXCEPT ![w] = "store"]
       /\ UNCHANGED <<instances, returned, handleOps>>

\* cls._instances[(cls, key)] = instance
CtorStore(w) ==
    LET c == ctorLocal[w] IN
    /\ UNCHANGED notHandles /\ ctorPc[w] = "store"
    /\ instances' = [k \in DOMAIN instances \cup {<<c.cls, c.key>>} |->
                        IF k = <<c.cls, c.key>> THEN c.instance ELSE instances[k]]
    /\ ctorPc' = [ctorPc EXCEPT ![w] = "return"]
    /\ UNCHANGED <<objs, returned, ctorLocal, queues, handleOps>>

\* return cls._instances[(cls, key)]
CtorReturn(w) ==
    LET c == ctorLocal[w]
        asked == [cls |-> c.cls, name |-> c.name, form |-> "positional"]
    IN /\ UNCHANGED notHandles /\ ctorPc[w] = "return"
       /\ returned' = returned \cup {[asked |-> asked, inst |-> instances[<<c.cls, c.key>>]]}
       /\ ctorLocal' = [ctorLocal EXCEPT ![w] = NoCall]
       /\ ctorPc' = [ctorPc EXCEPT ![w] = "idle"]
       /\ UNCHANGED <<instances, objs, queues, handleOps>>

HandlesStart ==
    /\ ctorPc = [w \in Workers |-> "idle"]
    /\ ctorLocal = [w \in Workers |-> NoCall]
    /\ queues = [o \in {} |-> Deque]
    /\ handleOps = <<>>

\* the callers of ListQueue(...), one call at a time
HandlesStep ==
    \/ \E form \in ArgForms, name \in CtorNames : ConstructHandle(form, name)
    \/ \E name \in CtorNames, n \in Serials, x \in Items : HandleEnqueue(name, n, x)
    \/ \E name \in CtorNames, n \in Serials : HandleDequeue(name, n)

\* workers inside the constructors, and enqueueing through what they got
ConstructStep ==
    \/ \E w \in Workers, cls \in QueueClasses, name \in CtorNames : CtorCheck(w, cls, name)
    \/ \E w \in Workers : CtorInit(w)
    \/ \E w \in Workers : CtorStore(w)
    \/ \E w \in Workers : CtorReturn(w)
    \/ \E name \in CtorNames, n \in Serials, x \in Items : HandleEnqueue(name, n, x)

(***************************************************************************)
(* RedisQueue(queue_name, url) and the endpoint behind url.                *)
(* redis.from_url(url) parses the url and sets up a connection pool; a     *)
(* connection is opened when the first command is sent.                    *)
(***************************************************************************)
\* url: not set (None), the url of a server that answers, or a well-formed
\* url nothing answers at
Endpoints == {"unset", "valid", "unreachable"}

\* the call that made object o, and the url it was given
MakerOf(o) == CHOOSE i \in DOMAIN redisCalls : redisCalls[i].made /\ redisCalls[i].inst = o
EndpointOf(o) == redisCalls[MakerOf(o)].url

\* a command of the client (lpush, rpop): the connection is opened now
Command(url) == IF url = "valid" THEN "ok" ELSE "ConnectionError"

ConstructRedisQueue(name, url) ==
    /\ UNCHANGED notRedis
    /\ Len(redisCalls) < MaxCalls
    /\ Construct("RedisQueue", "keyword", name, url)
    /\ redisCalls' = Append(redisCalls,
          [name |-> name, url |-> url,
           made |-> objs' # objs,
           out |-> IF ~Registered("RedisQueue", name) /\ InitRaises("RedisQueue", url)
                   THEN "raise" ELSE "instance",
           inst |-> Given("RedisQueue", name, instances')])
    /\ UNCHANGED redisCommands

\* the first enqueue or dequeue on a RedisQueue object
FirstCommand(name, op) ==
    /\ UNCHANGED notRedis
    /\ Registered("RedisQueue", name)
    /\ \A c \in redisCommands : c.inst # instances[<<"RedisQueue", name>>]
    /\ LET o == instances[<<"RedisQueue", name>>] IN
       redisCommands' = redisCommands \cup
          {[inst |-> o, op |-> op, out |-> Command(EndpointOf(o))]}
    /\ UNCHANGED <<redisCalls, instances, objs, returned>>

RedisStart == redisCalls = <<>> /\ redisCommands = {}

RedisStep ==
    \/ \E name \in QueueNames, url \in Endpoints : ConstructRedisQueue(name, url)
    \/ \E name \in QueueNames, op \in {"enqueue", "dequeue"} : FirstCommand(name, op)

(***************************************************************************)
(* Text: a Python str is a sequence of characters, each a string (the      *)
(* backquote is written "BQ").                                             *)
(***************************************************************************)
\* the characters the regular expression class \s and str.strip() treat as
\* whitespace, among those the model's texts are written with
Whitespace == {" ", "\t", "\n"}

BQ == "BQ"
Fence == <<BQ, BQ, BQ>>
JsonTag == <<"j", "s", "o", "n">>

\* a value handed back by a step of summarize: a str, None, a parsed JSON
\* value, or an exception raised
Str(t) == [kind |-> "str", val |-> t]
NoneVal == [kind |-> "None", val |-> <<>>]
Raise(e) == [kind |-> "raise", val |-> <<e>>]

RECURSIVE LStrip(_)
LStrip(t) == IF t # <<>> /\ Head(t) \in Whitespace THEN LStrip(Tail(t)) ELSE t

RECURSIVE RStrip(_)
RStrip(t) ==
    IF t # <<>> /\ t[Len(t)] \in Whitespace THEN RStrip(SubSeq(t, 1, Len(t) - 1)) ELSE t

\* str.strip()
Strip(t) == RStrip(LStrip(t))

RECURSIVE C13_Mut_CollapseRepeats(_)
C13_Mut_CollapseRepeats(t) ==
    IF Len(t) <= 1 THEN t
    ELSE IF t[1] \in Whitespace /\ t[2] \in Whitespace
         THEN <<t[1]>> \o Tail(C13_Mut_CollapseRepeats(Tail(t)))
         ELSE <<t[1]>> \o C13_Mut_CollapseRepeats(Tail(t))

\* re.sub(r"(\s)\1+", r"\1", text): every run of one whitespace character
\* repeated is replaced by one occurrence of it
RECURSIVE CollapseRepeats(_)
CollapseRepeats(t) ==
    IF Len(t) <= 1 THEN t
    ELSE IF t[1] \in Whitespace /\ t[2] = t[1]
         THEN CollapseRepeats(Tail(t))
         ELSE <<t[1]>> \o CollapseRepeats(Tail(t))

\* Summarizer.normalize_text(text), text a str
NormalizeStr(t) == Strip(CollapseRepeats(t))

\* Summarizer.normalize_text(text): re.sub raises TypeError on None
NormalizeText(v) ==
    IF v.kind = "str" THEN Str(NormalizeStr(v.val)) ELSE Raise("TypeError")

\* t has p at position i
HasAt(t, p, i) == i + Len(p) - 1 <= Len(t) /\ SubSeq(t, i, i + Len(p) - 1) = p

\* the first position from i on where t has p; Len(t) + 1 when there is none
RECURSIVE FindFrom(_, _, _)
FindFrom(t, p, i) ==
    IF i > Len(t) THEN Len(t) + 1
    ELSE IF HasAt(t, p, i) THEN i ELSE FindFrom(t, p, i + 1)

\* the pattern ```json(.*?)```|```(.*?)``` tried at position i: the first
\* alternative, then the second; (.*?) ends at the first closing fence
NoMatch == [found |-> FALSE, alt |-> "none", group |-> <<>>]
MatchAt(t, i) ==
    LET open1 == i + Len(Fence) + Len(JsonTag)
        close1 == FindFrom(t, Fence, open1)
        open2 == i + Len(Fence)
        close2 == FindFrom(t, Fence, open2)
    IN  IF HasAt(t, Fence \o JsonTag, i) /\ close1 <= Len(t)
        THEN [found |-> TRUE, alt |-> "json", group |-> SubSeq(t, open1, close1 - 1)]
        ELSE IF HasAt(t, Fence, i) /\ close2 <= Len(t)
        THEN [found |-> TRUE, alt |-> "any", group |-> SubSeq(t, open2, close2 - 1)]
        ELSE NoMatch

\* pattern.search(text): the match at the leftmost position that has one
RECURSIVE SearchFrom(_, _)
SearchFrom(t, i) ==
    IF i > Len(t) THEN NoMatch
    ELSE IF MatchAt(t, i).found THEN MatchAt(t, i) ELSE SearchFrom(t, i + 1)

C11_Mut_ExtractJson(t) ==
    LET m == SearchFrom(t, 1) IN
    IF ~m.found THEN Str(Strip(t))
    ELSE IF m.alt = "json" /\ m.group # <<>> THEN Str(Strip(m.group))
    ELSE IF m.alt = "any" THEN Str(Strip(m.group))
    ELSE Raise("AttributeError")

C12_Mut_ExtractJson(t) ==
    LET m == SearchFrom(t, 1) IN
    IF ~m.found THEN NoneVal
    ELSE IF m.alt = "json" THEN Str(Strip(JsonTag \o m.group))
    ELSE Str(Strip(m.group))

\* Summarizer.extract_json(text):
\*   match.group(1).strip() if match.group(1) else match.group(2).strip()
\* group(1) is None or "" when falsy; group(2) is None when the first
\* alternative matched, and None.strip() raises AttributeError
ExtractJson(t) ==
    LET m == SearchFrom(t, 1) IN
    IF ~m.found THEN NoneVal
    ELSE IF m.alt = "json" /\ m.group # <<>> THEN Str(Strip(m.group))
    ELSE IF m.alt = "any" THEN Str(Strip(m.group))
    ELSE Raise("AttributeError")

(***************************************************************************)
(* json.loads on the JSON texts the model writes: objects, arrays, strings *)
(* with no escape but \n, and unsigned integers.                           *)
(***************************************************************************)
JsonWs == {" ", "\t", "\n"}
Digits == {"1", "2"}
Quote == "\""
\* a raw control character inside a string is an error for json.loads
ControlChars == {"\t", "\n"}

JStr(cs) == [type |-> "str", v |-> cs]
JInt(ds) == [type |-> "int", v |-> ds]
JList(vs) == [type |-> "list", v |-> vs]
\* a dict from its (key, value) pairs in the order parsed: a repeated key
\* keeps its last value
JDict(pairs) ==
    [type |-> "dict",
     v |-> [k \in {pairs[i][1] : i \in DOMAIN pairs} |->
              LET last == CHOOSE i \in DOMAIN pairs :
                              /\ pairs[i][1] = k
                              /\ \A j \in DOMAIN pairs : pairs[j][1] = k => j <= i
              IN  pairs[last][2]]]
EmptyDict == JDict(<<>>)

Parsed(v, rest) == [ok |-> TRUE, val |-> v, rest |-> rest]
ParseFail == [ok |-> FALSE, val |-> JStr(<<>>), rest |-> <<>>]

RECURSIVE SkipWs(_)
SkipWs(t) == IF t # <<>> /\ Head(t) \in JsonWs THEN SkipWs(Tail(t)) ELSE t

\* the escape \n of a string body decoded to the newline character
RECURSIVE Unescape(_)
Unescape(b) ==
    IF b = <<>> THEN <<>>
    ELSE IF Head(b) = "\\" /\ Len(b) >= 2 /\ b[2] = "n"
         THEN <<"\n">> \o Unescape(SubSeq(b, 3, Len(b)))
         ELSE <<Head(b)>> \o Unescape(Tail(b))

\* every backslash of the body begins the escape \n
EscapesOk(b) == \A i \in DOMAIN b : b[i] = "\\" => (i < Len(b) /\ b[i + 1] = "n")

\* a string, t beginning with its opening quote
ParseString(t) ==
    LET close == FindFrom(t, <<Quote>>, 2)
        body == SubSeq(t, 2, close - 1)
    IN  IF \/ close > Len(t)
           \/ \E i \in DOMAIN body : body[i] \in ControlChars
           \/ ~EscapesOk(body)
        THEN ParseFail
        ELSE Parsed(JStr(Unescape(body)), SubSeq(t, close + 1, Len(t)))

RECURSIVE DigitRun(_)
DigitRun(t) == IF t # <<>> /\ Head(t) \in Digits THEN <<Head(t)>> \o DigitRun(Tail(t)) ELSE <<>>

RECURSIVE ParseValue(_)
RECURSIVE ParseElems(_, _)
RECURSIVE ParseMembers(_, _)

\* the elements of an array after "[" or ",": value, then "," or "]"
ParseElems(t, acc) ==
    LET r == ParseValue(t)
        t2 == SkipWs(r.rest)
    IN  IF ~r.ok \/ t2 = <<>> THEN ParseFail
        ELSE IF Head(t2) = "," THEN ParseElems(Tail(t2), Append(acc, r.val))
        ELSE IF Head(t2) = "]" THEN Parsed(JList(Append(acc, r.val)), Tail(t2))
        ELSE ParseFail

\* the members of an object after "{" or ",": string ":" value, then "," or "}"
ParseMembers(t, acc) ==
    LET t1 == SkipWs(t)
        k == IF t1 # <<>> /\ Head(t1) = Quote THEN ParseString(t1) ELSE ParseFail
        t2 == SkipWs(k.rest)
        r == IF k.ok /\ t2 # <<>> /\ Head(t2) = ":" THEN ParseValue(Tail(t2)) ELSE ParseFail
        t3 == SkipWs(r.rest)
        acc2 == Append(acc, <<k.val.v, r.val>>)
    IN  IF ~r.ok \/ t3 = <<>> THEN ParseFail
        ELSE IF Head(t3) = "," THEN ParseMembers(Tail(t3), acc2)
        ELSE IF Head(t3) = "}" THEN Parsed(JDict(acc2), Tail(t3))
        ELSE ParseFail

ParseValue(t0) ==
    LET t == SkipWs(t0)
        inner == SkipWs(Tail(t))
    IN  IF t = <<>> THEN ParseFail
        ELSE IF Head(t) = Quote THEN ParseString(t)
        ELSE IF Head(t) \in Digits
             THEN Parsed(JInt(DigitRun(t)), SubSeq(t, Len(DigitRun(t)) + 1, Len(t)))
        ELSE IF Head(t) = "["
             THEN IF inner # <<>> /\ Head(inner) = "]"
                  THEN Parsed(JList(<<>>), Tail(inner))
                  ELSE ParseElems(inner, <<>>)
        ELSE IF Head(t) = "{"
             THEN IF inner # <<>> /\ Head(inner) = "}"
                  THEN Parsed(EmptyDict, Tail(inner))
                  ELSE ParseMembers(inner, <<>>)
        ELSE ParseFail

Json(v) == [kind |-> "json", val |-> v]

\* json.loads(text): the value, or JSONDecodeError
JsonLoads(t) ==
    LET r == ParseValue(t) IN
    IF r.ok /\ SkipWs(r.rest) = <<>> THEN Json(r.val) ELSE Raise("JSONDecodeError")

\* Summarizer.load_json(text): json.loads(text), {} on JSONDecodeError
LoadJson(t) ==
    IF JsonLoads(t).kind = "raise" THEN Json(EmptyDict) ELSE JsonLoads(t)

(***************************************************************************)
(* Summarizer.summarize, given what provider.call handed back.             *)
(***************************************************************************)
\* the body of the try block: normalize_text, extract_json, load_json; an
\* exception raised by a step leaves the block
SummarizeTry(summary) ==
    IF summary.kind = "raise" THEN summary
    ELSE LET normalized == NormalizeText(summary) IN
    IF normalized.kind = "raise" THEN normalized
    ELSE LET extracted == ExtractJson(normalized.val) IN
    IF extracted.kind = "raise" THEN extracted
    ELSE \* llm_res_dict = {}; if summary_data: llm_res_dict = self.load_json(...)
         IF extracted.kind = "None" \/ extracted.val = <<>>
         THEN Json(EmptyDict)
         ELSE LoadJson(extracted.val)

C10_Mut_Summarize(summary) == SummarizeTry(summary)

\* summarize(text_content): except Exception: return {}
Summarize(summary) ==
    IF SummarizeTry(summary).kind = "raise" THEN Json(EmptyDict) ELSE SummarizeTry(summary)

(***************************************************************************)
(* The texts a provider answers with, written from these pieces.           *)
(***************************************************************************)
\* {"s":"a","t":["b"]}: an object with a summary s and a list of tags t
PayloadObject ==
    <<"{", Quote, "s", Quote, ":", Quote, "a", Quote, ",",
      Quote, "t", Quote, ":", "[", Quote, "b", Quote, "]", "}">>
\* {"s":"a  b"}: the summary holds two spaces in a row
PayloadSpaces == <<"{", Quote, "s", Quote, ":", Quote, "a", " ", " ", "b", Quote, "}">>
\* {"s": "a"} written over two lines
PayloadLines == <<"{", "\n", Quote, "s", Quote, ":", " ", Quote, "a", Quote, "\n", "}">>
\* [1], 2 and "a": JSON that is not an object
PayloadList == <<"[", "1", "]">>
PayloadInt == <<"2">>
PayloadString == <<Quote, "a", Quote>>
\* {"s": and plain words: not JSON
PayloadCut == <<"{", Quote, "s", Quote, ":">>
PayloadWords == <<"a", " ", "b">>

Payloads ==
    {PayloadObject, PayloadSpaces, PayloadLines, PayloadList, PayloadInt,
     PayloadString, PayloadCut, PayloadWords, <<>>}

TaggedBlock(p) == Fence \o JsonTag \o <<"\n">> \o p \o <<"\n">> \o Fence
TightBlock(p) == Fence \o JsonTag \o p \o Fence
PlainBlock(p) == Fence \o <<"\n">> \o p \o <<"\n">> \o Fence

Blocks ==
    {TaggedBlock(p) : p \in Payloads} \cup {TightBlock(p) : p \in Payloads}
        \cup {PlainBlock(p) : p \in Payloads}

Prologues == {<<>>, <<"a", ":", "\n", "\n">>}
Epilogues == {<<>>, <<" ", "\t", "b">>}

Texts ==
    {pre \o b \o post : pre \in Prologues, b \in Blocks, post \in Epilogues}
        \cup {PlainBlock(PayloadList) \o <<"\n">> \o TaggedBlock(PayloadObject)}
        \cup {Fence \o JsonTag \o PayloadObject}
        \cup {PayloadObject, PayloadWords, <<" ", " ">>, <<>>}

(***************************************************************************)
(* BaseLLMProvider.call under @retry(wait=wait_random_exponential(min=2,   *)
(* max=6), stop=stop_after_attempt(2)) and @timeit, which passes results   *)
(* and exceptions through.                                                 *)
(***************************************************************************)
MaxAttempts == 2
WaitMin == 2
WaitMax == 6

\* str.lower() on the letters model names are written with
LowerChar(c) == IF c = "M" THEN "m" ELSE IF c = "V" THEN "v" ELSE c
Lower(t) == [i \in DOMAIN t |-> LowerChar(t[i])]

\* name.split(":")[-1]: what follows the last colon
RECURSIVE AfterLastColon(_)
AfterLastColon(t) ==
    IF \E i \in DOMAIN t : t[i] = ":"
    THEN AfterLastColon(SubSeq(t, FindFrom(t, <<":">>, 1) + 1, Len(t)))
    ELSE t

\* the names models.list() can give, the catalogs made of them, and the
\* names a caller asks for
CatalogNames == {<<"m">>, <<"x">>, <<"V", ":", " ", "M", " ">>}
Catalogs == {{}, {<<"x">>}, {<<"m">>, <<"x">>}, {<<"V", ":", " ", "M", " ">>}}
ModelNames == {<<"m">>, <<"M">>, <<"v", ":", "m">>}

\* _check_model_exists(model_name):
\*   model_name.lower() in [m.name.split(":")[-1].strip().lower() for m in list]
CheckModelExists(name, cat) ==
    Lower(name) \in {Lower(Strip(AfterLastColon(n))) : n \in cat}

C6_Mut_CheckOutcome(name, cat, listOk) == IF listOk THEN "exists" ELSE "list_error"

\* the first statement of call: models.list() may raise; a model that is
\* not listed raises ModelNotFoundError
CheckOutcome(name, cat, listOk) ==
    IF ~listOk THEN "list_error"
    ELSE IF ~CheckModelExists(name, cat) THEN "not_found"
    ELSE "exists"

C8_Mut_GenerationReturn(out) == out

\* try: res = create(...); return res.choices[0].message.content
\* except Exception: return ""
GenerationReturn(out) == IF out.kind = "raise" THEN Str(<<>>) ELSE out

C9_Mut_ShouldStop(n) == n >= 1

C28_Mut_ShouldStop(n) == n >= 3

\* stop_after_attempt(2)
ShouldStop(n) == n >= MaxAttempts

\* what chat.completions.create(...).choices[0].message.content can be: a
\* text, None, or an exception raised on the way
GenerationOutcomes == {Str(t) : t \in Texts} \cup {NoneVal, Raise("APIError")}

\* what a provider other than BaseLLMProvider may hand to summarize
StubOutcomes ==
    {Str(PlainBlock(PayloadObject)), Str(<<>>), NoneVal, Raise("ModelNotFoundError"),
     Raise("RetryError"), Raise("Exception")}

Pending == [kind |-> "pending", val |-> <<>>]

\* summarize: summary = self.provider.call(model_name=self.model, ...)
ProviderCall ==
    /\ UNCHANGED notProvider
    /\ provider = "base" /\ ppc = "idle"
    /\ ppc' = "check"
    /\ attempts' = 1
    /\ UNCHANGED <<provider, model, catalog, checks, genCalls, slept, excs,
                   genFailedAt, callOut, result>>

\* an attempt ends with an exception: the retry decorator takes over
AttemptFails(e) ==
    /\ excs' = Append(excs, e)
    /\ ppc' = "failed"
    /\ UNCHANGED <<callOut, attempts, slept>>

\* an attempt returns: the retry decorator returns the value to the caller
AttemptReturns(v) ==
    /\ callOut' = v
    /\ ppc' = "done"
    /\ UNCHANGED <<excs, attempts, slept>>

\* call: if not self._check_model_exists(model_name): raise ModelNotFoundError
CheckModel ==
    /\ UNCHANGED notProvider
    /\ ppc = "check"
    /\ checks' = checks + 1
    /\ \E listOk \in BOOLEAN :
        LET o == CheckOutcome(model, catalog, listOk) IN
        IF o = "list_error" THEN AttemptFails("APIError")
        ELSE IF o = "not_found" THEN AttemptFails("ModelNotFoundError")
        ELSE /\ ppc' = "generate"
             /\ UNCHANGED <<excs, callOut, attempts, slept>>
    /\ UNCHANGED <<provider, model, catalog, genCalls, genFailedAt, result>>

\* call: the generation request and what becomes of its outcome
Generate ==
    /\ UNCHANGED notProvider
    /\ ppc = "generate"
    /\ genCalls' = genCalls + 1
    /\ \E out \in GenerationOutcomes :
        /\ genFailedAt' = IF out.kind = "raise" THEN attempts ELSE genFailedAt
        /\ IF GenerationReturn(out).kind = "raise"
           THEN AttemptFails(GenerationReturn(out).val[1])
           ELSE AttemptReturns(GenerationReturn(out))
    /\ UNCHANGED <<provider, model, catalog, checks, result>>

\* retry: the attempt failed and stop_after_attempt(2) does not stop yet:
\* sleep wait_random_exponential(min=2, max=6), then call again
RetryWait ==
    /\ UNCHANGED notProvider
    /\ ppc = "failed" /\ ~ShouldStop(attempts)
    /\ \E w \in WaitMin..WaitMax : slept' = Append(slept, w)
    /\ attempts' = attempts + 1
    /\ ppc' = "check"
    /\ UNCHANGED <<provider, model, catalog, checks, genCalls, excs, genFailedAt,
                   callOut, result>>

\* retry: the attempt failed and stop_after_attempt(2) stops: without
\* reraise=True the decorator raises RetryError, which wraps the last exception
RetryStop ==
    /\ UNCHANGED notProvider
    /\ ppc = "failed" /\ ShouldStop(attempts)
    /\ callOut' = Raise("RetryError")
    /\ ppc' = "done"
    /\ UNCHANGED <<provider, model, catalog, attempts, checks, genCalls, slept,
                   excs, genFailedAt, result>>

\* a provider whose call is not BaseLLMProvider's: any outcome
StubCall ==
    /\ UNCHANGED notProvider
    /\ provider = "stub" /\ ppc = "idle"
    /\ \E out \in StubOutcomes : callOut' = out
    /\ ppc' = "done"
    /\ UNCHANGED <<provider, model, catalog, attempts, checks, genCalls, slept,
                   excs, genFailedAt, result>>

\* summarize: the rest of the try block, and the except clause
SummarizeReturn ==
    /\ UNCHANGED notProvider
    /\ ppc = "done" /\ result.kind = "pending"
    /\ result' = Summarize(callOut)
    /\ UNCHANGED <<provider, model, catalog, ppc, attempts, checks, genCalls,
                   slept, excs, genFailedAt, callOut>>

ProviderStart ==
    /\ ppc = "idle"
    /\ attempts = 0 /\ checks = 0 /\ genCalls = 0
    /\ slept = <<>> /\ excs = <<>>
    /\ genFailedAt = 0
    /\ callOut = Pending /\ result = Pending

\* a Summarizer with its provider and model, before summarize is called
ProviderInit ==
    /\ provider \in {"base", "stub"}
    /\ model \in ModelNames
    /\ catalog \in Catalogs
    /\ ProviderStart

ProviderIdle ==
    /\ provider = "base" /\ model = <<"m">> /\ catalog = {}
    /\ ProviderStart

SummarizeStep ==
    \/ ProviderCall
    \/ CheckModel
    \/ Generate
    \/ RetryWait
    \/ RetryStop
    \/ StubCall
    \/ SummarizeReturn

(***************************************************************************)
(* ProviderFactory.get_provider(provider_name).                            *)
(***************************************************************************)
\* ProviderFactory.PROVIDERS
PROVIDERS ==
    [n \in {"openrouter", "openai"} |->
        IF n = "openrouter" THEN "OpenRouterProvider" ELSE "OpenAIProvider"]

\* the provider names asked for
ProviderNames ==
    {"openrouter", "openai", "OpenAI", "openai ", "", "anthropic", "gpt-4o",
     "google/gemini-flash-1.5", "OpenRouterProvider", "x"}

Class(c) == [kind |-> "class", val |-> <<c>>]

\* provider = cls.PROVIDERS.get(provider_name); if not provider: raise ...
GetProvider(provider_name) ==
    IF provider_name \in DOMAIN PROVIDERS THEN Class(PROVIDERS[provider_name])
    ELSE Raise("ModelNotFoundError")

GetProviderCall(provider_name) ==
    /\ UNCHANGED notProviderFactory
    /\ Len(providerCalls) < MaxCalls
    /\ providerCalls' = Append(providerCalls,
          [name |-> provider_name, out |-> GetProvider(provider_name)])

ProviderFactoryStart == providerCalls = <<>>

ProviderFactoryStep == \E n \in ProviderNames : GetProviderCall(n)

(***************************************************************************)
(* A call of Summarizer.normalize_text on its own.                         *)
(***************************************************************************)
\* the arguments tried: None, and every text of a letter and the three
\* whitespace characters up to MaxTextLen long
TextAlphabet == {"a"} \cup Whitespace
NormalizeArgs ==
    {NoneVal} \cup {Str(t) : t \in UNION {[1..n -> TextAlphabet] : n \in 0..MaxTextLen}}

NormalizeCall ==
    /\ UNCHANGED notText
    /\ normalizedText.kind = "pending"
    /\ normalizedText' = NormalizeText(text)
    /\ UNCHANGED text

TextIdle == text = Str(<<>>) /\ normalizedText = Pending

TextInit == text \in NormalizeArgs /\ normalizedText = Pending

(***************************************************************************)
(* A call of Summarizer.extract_json on its own, on texts written of words *)
(* and fenced blocks, one per line.                                        *)
(***************************************************************************)
Word(c) == [kind |-> "word", content |-> c]
Plain(c) == [kind |-> "plain", content |-> c]
Tagged(c) == [kind |-> "json", content |-> c]

SegmentKinds ==
    {Word(<<"b">>), Plain(<<"a">>), Plain(<<" ", "1", "\n">>),
     Tagged(<<"{", "}">>), Tagged(<<"\n", "[", "]", " ">>), Tagged(<<>>)}

SegmentLists == UNION {[1..n -> SegmentKinds] : n \in 0..MaxSegments}

Written(seg) ==
    IF seg.kind = "word" THEN seg.content
    ELSE IF seg.kind = "plain" THEN Fence \o seg.content \o Fence
    ELSE Fence \o JsonTag \o seg.content \o Fence

\* the text: the segments, each followed by a newline
RECURSIVE TextOf(_)
TextOf(segs) ==
    IF segs = <<>> THEN <<>> ELSE Written(Head(segs)) \o <<"\n">> \o TextOf(Tail(segs))

ExtractCall ==
    /\ UNCHANGED notExtract
    /\ extractOut.kind = "pending"
    /\ extractOut' = ExtractJson(TextOf(segments))
    /\ UNCHANGED segments

ExtractIdle == segments = <<>> /\ extractOut = Pending

ExtractInit == segments \in SegmentLists /\ extractOut = Pending

(***************************************************************************)
(* ScraperFactory.scrape over its scrapers, each run through               *)
(* BaseScraper.scrape; the queue is the ListQueue get_queue("llm-queue")   *)
(* gave the factory.                                                       *)
(***************************************************************************)
Scrapers == 1..NScrapers

\* a list value
List(l) == [kind |-> "list", val |-> l]

\* the News a scraper makes: the k-th post of scraper i
Post(i, k) == [id |-> k, source |-> i]

\* what _scrape of scraper i can return: its first n posts, n up to MaxBatch
Batches(i) == {[k \in 1..n |-> Post(i, k)] : n \in 0..MaxBatch}

\* the limit argument: None, or a count
Limits == {None} \cup (1..MaxBatch)

\* news.model_dump_json()
ModelDumpJson(n) == [json |-> <<"id", n.id, "source", n.source>>]

C14_Mut_BaseScraperScrape(out) == out

\* BaseScraper.scrape: news_list = []; try: news_list = await self._scrape()
\* except Exception: log; return news_list
BaseScraperScrape(out) == IF out.kind = "raise" THEN List(<<>>) ELSE out

\* scraped_news[:limit] when limit is not None
C26_Mut_Truncate(l, lim) == l

\* if limit is not None: scraped_news = scraped_news[:limit]
Truncate(l, lim) ==
    IF lim = None THEN l ELSE SubSeq(l, 1, IF Len(l) < lim THEN Len(l) ELSE lim)

\* [self.queue.enqueue(news.model_dump_json()) for news in scraped_news]
RECURSIVE EnqueueAll(_, _)
EnqueueAll(q, l) ==
    IF l = <<>> THEN q
    ELSE EnqueueAll(ListEnqueueStore(q, ModelDumpJson(Head(l))), Tail(l))

\* ScraperFactory.scrape(limit): news_list = []
ScrapeStart ==
    /\ UNCHANGED notScrape
    /\ scrapePc = "idle"
    /\ scrapePc' = "loop"
    /\ news_list' = <<>>
    /\ UNCHANGED <<limit, ran, scrapeOut, store>>

\* one turn of: for scraper in self.scrapers, with what its _scrape does
ScrapeOne ==
    /\ UNCHANGED notScrape
    /\ scrapePc = "loop" /\ Len(ran) < NScrapers
    /\ \E raised \in BOOLEAN :
       \E batch \in (IF raised THEN {<<>>} ELSE Batches(Len(ran) + 1)) :
        LET out == IF raised THEN Raise("Exception") ELSE List(batch)
            scraped == BaseScraperScrape(out)
        IN  /\ ran' = Append(ran, [raised |-> raised, batch |-> batch])
            /\ IF scraped.kind = "raise"
               THEN /\ scrapeOut' = scraped
                    /\ scrapePc' = "done"
                    /\ UNCHANGED <<news_list, store>>
               ELSE /\ news_list' = news_list \o Truncate(scraped.val, limit)
                    /\ store' = EnqueueAll(store, Truncate(scraped.val, limit))
                    /\ UNCHANGED <<scrapeOut, scrapePc>>
    /\ UNCHANGED limit

\* return news_list
ScrapeReturn ==
    /\ UNCHANGED notScrape
    /\ scrapePc = "loop" /\ Len(ran) = NScrapers
    /\ scrapeOut' = List(news_list)
    /\ scrapePc' = "done"
    /\ UNCHANGED <<limit, ran, news_list, store>>

ScrapeIdle ==
    /\ limit = None /\ scrapePc = "idle" /\ ran = <<>>
    /\ news_list = <<>> /\ scrapeOut = Pending

ScrapeInit ==
    /\ limit \in Limits /\ scrapePc = "idle" /\ ran = <<>>
    /\ news_list = <<>> /\ scrapeOut = Pending

ScrapeStep == ScrapeStart \/ ScrapeOne \/ ScrapeReturn

(***************************************************************************)
(* News.__eq__ and News.__hash__.                                          *)
(***************************************************************************)
\* the strings an id or a source is drawn from: a letter and the hyphen, up
\* to MaxIdLen characters
IdStrings == UNION {[1..n -> {"a", "-"}] : n \in 1..MaxIdLen}

\* the News tried: id and source, and one content field (the title)
NewsRecords == [id : IdStrings, source : IdStrings, title : {"t1", "t2"}]

\* f"{self.id}-{self.source}"
HashKey(n) == n.id \o <<"-">> \o n.source

\* News.__hash__: hash(f"{self.id}-{self.source}"); equal strings hash
\* alike, and different strings are taken to hash differently
NewsHash(n) == [hash_of |-> HashKey(n)]

\* News.__eq__: self.id == other.id and self.source == other.source
NewsEq(n, m) == n.id = m.id /\ n.source = m.source

Compare ==
    /\ UNCHANGED notNews
    /\ compared.kind = "pending"
    /\ compared' = [kind |-> "done", eq |-> NewsEq(newsA, newsB),
                    hashA |-> NewsHash(newsA), hashB |-> NewsHash(newsB)]
    /\ UNCHANGED <<newsA, newsB>>

NoComparison == [kind |-> "pending", eq |-> FALSE, hashA |-> 0, hashB |-> 0]

OneNews == [id |-> <<"a">>, source |-> <<"a">>, title |-> "t1"]

NewsIdle == newsA = OneNews /\ newsB = OneNews /\ compared = NoComparison

NewsInit == newsA \in NewsRecords /\ newsB \in NewsRecords /\ compared = NoComparison

(***************************************************************************)
(* The pipeline a record goes through: scraped, queued, summarized,        *)
(* dispatched. The steps between the stages are the orchestrator's; what   *)
(* the stages do is ScraperFactory.scrape's enqueue, ListQueue.dequeue,    *)
(* Summarizer.summarize and SlackDispatchChannel.send.                     *)
(***************************************************************************)
Records == 1..NRecords

\* what the provider hands to summarize for a record: a tagged block with a
\* summary, one whose summary runs over two lines, words with no block,
\* None, and a failure
SummaryLines ==
    <<"{", Quote, "s", Quote, ":", Quote, "a", "\\", "n", "b", Quote, "}">>
ProviderAnswers ==
    {Str(TaggedBlock(PayloadObject)), Str(TaggedBlock(SummaryLines)), Str(PayloadWords),
     NoneVal, Raise("RetryError")}

\* the summary a result of summarize carries: the string under "s" when the
\* result is a mapping that has one, None otherwise
SummaryIn(res) ==
    IF /\ res.kind = "json" /\ res.val.type = "dict"
       /\ <<"s">> \in DOMAIN res.val.v
       /\ res.val.v[<<"s">>].type = "str"
    THEN Str(res.val.v[<<"s">>].v)
    ELSE NoneVal

\* the summary reflowed as a quoted block:
\*   "\n".join([f">{line}" for line in news.summary.split("\n")])
RECURSIVE QuoteLines(_)
QuoteLines(t) ==
    IF t = <<>> THEN <<>>
    ELSE IF Head(t) = "\n" THEN <<"\n", ">">> \o QuoteLines(Tail(t))
    ELSE <<Head(t)>> \o QuoteLines(Tail(t))

\* SlackDispatchChannel.format_message(news): news.summary.split raises
\* AttributeError when news.summary is None
FormatMessage(r, s) ==
    IF s.kind = "None" THEN Raise("AttributeError")
    ELSE [kind |-> "blocks", val |-> <<">">> \o QuoteLines(s.val), header |-> r]

\* SlackDispatchChannel.send_message(message)
SendMessage(message, url, net) ==
    IF url = "" THEN Raise("ValueError")
    ELSE IF net = "down" THEN Raise("ConnectionError")
    ELSE [kind |-> "response", val |-> <<"ok">>]

\* SlackDispatchChannel.send(news):
\*   message = self.format_message(news); return self.send_message(message)
SlackSend(r, s, url, net) ==
    IF FormatMessage(r, s).kind = "raise" THEN FormatMessage(r, s)
    ELSE SendMessage(FormatMessage(r, s), url, net)

C16_Mut_Dispatchable(st) == st \in {"dequeued", "summarized"}

\* the orchestrator hands a record to a channel once the Summarizer is done
\* with it
Dispatchable(st) == st = "summarized"

\* the record is serialized into the queue
PipeEnqueue(r) ==
    /\ UNCHANGED notPipeline
    /\ stage[r] = "scraped"
    /\ store' = ListEnqueueStore(store, [json |-> r])
    /\ stage' = [stage EXCEPT ![r] = "queued"]
    /\ UNCHANGED <<webhook_url, network, newsSummary, summarized, sendOut, posted>>

\* the Summarizer dequeues a record and deserializes it
PipeDequeue ==
    /\ UNCHANGED notPipeline
    /\ store # <<>>
    /\ store' = ListDequeuePopped(store).rest
    /\ stage' = [stage EXCEPT ![ListDequeuePopped(store).item.json] = "dequeued"]
    /\ UNCHANGED <<webhook_url, network, newsSummary, summarized, sendOut, posted>>

\* the Summarizer summarizes the record and attaches what came of it
PipeSummarize(r) ==
    /\ UNCHANGED notPipeline
    /\ stage[r] = "dequeued"
    /\ \E answer \in ProviderAnswers :
        newsSummary' = [newsSummary EXCEPT ![r] = SummaryIn(Summarize(answer))]
    /\ summarized' = summarized \cup {r}
    /\ stage' = [stage EXCEPT ![r] = "summarized"]
    /\ UNCHANGED <<webhook_url, network, sendOut, posted, store>>

\* the record is handed to SlackDispatchChannel.send
PipeSend(r) ==
    /\ UNCHANGED notPipeline
    /\ Dispatchable(stage[r])
    /\ LET out == SlackSend(r, newsSummary[r], webhook_url, network) IN
        /\ sendOut' = [sendOut EXCEPT ![r] = out]
        /\ posted' = IF out.kind = "response"
                     THEN Append(posted, FormatMessage(r, newsSummary[r]))
                     ELSE posted
    /\ stage' = [stage EXCEPT ![r] = "dispatched"]
    /\ UNCHANGED <<webhook_url, network, newsSummary, summarized, store>>

\* the channel classes an object can be of: SlackDispatchChannel, and a
\* subclass of BaseInboundChannel (which, send being abstract in BaseChannel
\* and not defined by BaseInboundChannel, has to define send itself)
ChannelClasses == {"SlackDispatchChannel", "InboundSubclass"}

\* the method a call resolves to
Resolve(cls, op) ==
    IF cls = "SlackDispatchChannel"
    THEN (IF op = "receive" THEN "BaseDispatchChannel.receive"
          ELSE "SlackDispatchChannel.send")
    ELSE (IF op = "receive" THEN "BaseInboundChannel.receive"
          ELSE "InboundSubclass.send")

\* what a method can do: both receive methods raise RuntimeError; the send
\* of a subclass of BaseInboundChannel is its own: it returns, or goes to
\* BaseChannel.send, which raises NotImplementedError
Outcomes(method) ==
    IF method \in {"BaseDispatchChannel.receive", "BaseInboundChannel.receive"}
    THEN {"RuntimeError"}
    ELSE IF method = "InboundSubclass.send"
    THEN {"returned", "NotImplementedError"}
    ELSE {}

\* a call of receive, or of send on an inbound channel (send on a
\* SlackDispatchChannel is PipeSend)
ChannelCall(cls, op) ==
    /\ UNCHANGED notChannel
    /\ \E out \in Outcomes(Resolve(cls, op)) :
        /\ [cls |-> cls, op |-> op, out |-> out] \notin chanCalls
        /\ chanCalls' = chanCalls \cup {[cls |-> cls, op |-> op, out |-> out]}

PipelineStart ==
    /\ chanCalls = {}
    /\ stage = [r \in Records |-> "scraped"]
    /\ newsSummary = [r \in Records |-> NoneVal]
    /\ summarized = {}
    /\ sendOut = [r \in Records |-> Pending]
    /\ posted = <<>>

PipelineIdle == webhook_url = "" /\ network = "up" /\ PipelineStart

PipelineInit ==
    /\ webhook_url \in {"", "https://hooks"}
    /\ network \in {"up", "down"}
    /\ PipelineStart

PipelineStep ==
    \/ \E r \in Records : PipeEnqueue(r) \/ PipeSummarize(r) \/ PipeSend(r)
    \/ PipeDequeue
    \/ \E cls \in ChannelClasses, op \in {"send", "receive"} : ChannelCall(cls, op)

(***************************************************************************)
(* get_queue(queue_name, queue_type). QUEUE_CLASSES is keyed by the        *)
(* queue_type attribute of each subclass of AbstractQueue; get_queue is    *)
(* modelled for every registry of the two classes under the keys its       *)
(* default argument and its redis branch name.                             *)
(***************************************************************************)
Registries ==
    {[t \in ts |-> IF t = "redis" THEN "RedisQueue" ELSE "ListQueue"] :
        ts \in SUBSET {"list", "redis"}}

\* the queue_type strings asked for
QueueTypes == {"list", "redis", "kafka", ""}

\* os.getenv("REDIS_QUEUE_URL", None): not set, set to "", or set to a url
EnvUrls == {"unset", "", "valid"}

C19_Mut_Selected(reg, type, env) ==
    IF type \notin DOMAIN reg THEN "ListQueue"
    ELSE IF type = "redis" /\ env \in {"unset", ""} THEN "no_url"
    ELSE reg[type]

C20_Mut_Selected(reg, type, env) ==
    IF type \notin DOMAIN reg THEN "unsupported" ELSE reg[type]

\* get_queue up to the constructor call: "unsupported" and "no_url" are
\* its two ValueErrors, else the class it goes on to construct
Selected(reg, type, env) ==
    IF type \notin DOMAIN reg THEN "unsupported"
    ELSE IF type = "redis" /\ env \in {"unset", ""} THEN "no_url"
    ELSE reg[type]

\* the url the constructor is given: get_queue passes the environment's to
\* a "redis" class; otherwise it is the default, Config.REDIS_QUEUE_URL
UrlGiven(env) == IF env \in {"unset", ""} THEN "unset" ELSE "valid"

GetQueue(name, type) ==
    /\ UNCHANGED notFactory
    /\ Len(factoryCalls) < MaxCalls
    /\ LET sel == Selected(QUEUE_CLASSES, type, redis_queue_url) IN
        /\ IF sel \in {"unsupported", "no_url"}
           THEN UNCHANGED <<instances, objs, returned>>
           ELSE Construct(sel, "keyword", name, UrlGiven(redis_queue_url))
        /\ factoryCalls' = Append(factoryCalls,
              [name |-> name, type |-> type, env |-> redis_queue_url,
               out |-> IF sel \in {"unsupported", "no_url"} THEN "ValueError"
                       ELSE IF ~Registered(sel, SingletonKey(CallArgs("keyword", name),
                                                             CallKwargs("keyword", name)))
                               /\ InitRaises(sel, UrlGiven(redis_queue_url))
                       THEN "raised"
                       ELSE "instance",
               made |-> Cardinality(objs') - Cardinality(objs),
               registered |-> instances' # instances,
               inst |-> IF sel \in {"unsupported", "no_url"} THEN NoObj
                        ELSE Given(sel, name, instances')])
    /\ UNCHANGED <<QUEUE_CLASSES, redis_queue_url, imported>>

FactoryStart == factoryCalls = <<>>

NoRegistry == [t \in {} |-> ""]

FactoryIdle ==
    /\ QUEUE_CLASSES = NoRegistry /\ redis_queue_url = "unset" /\ FactoryStart
    /\ imported = "no"

FactoryInit ==
    /\ QUEUE_CLASSES \in Registries /\ redis_queue_url \in EnvUrls /\ FactoryStart
    /\ imported = "ok"

FactoryStep == \E name \in QueueNames, type \in QueueTypes : GetQueue(name, type)

(***************************************************************************)
(* The queue factory from its import on: QUEUE_CLASSES is built when       *)
(* factory.py is first imported, and a caller of get_queue imports it.     *)
(***************************************************************************)
\* AbstractQueue.__subclasses__() once every module of the package is imported
Subclasses == <<"ListQueue", "RedisQueue">>

\* cls.queue_type: neither class, nor AbstractQueue, defines the attribute
QueueTypeAttr(cls) == "absent"

\* {cls.queue_type: cls for cls in AbstractQueue.__subclasses__()}: reading
\* an attribute a class has not raises AttributeError
BuildRegistry ==
    IF \E i \in DOMAIN Subclasses : QueueTypeAttr(Subclasses[i]) = "absent"
    THEN [ok |-> FALSE, reg |-> NoRegistry]
    ELSE [ok |-> TRUE,
          reg |-> [t \in {QueueTypeAttr(Subclasses[i]) : i \in DOMAIN Subclasses} |->
                     Subclasses[CHOOSE i \in DOMAIN Subclasses :
                         /\ QueueTypeAttr(Subclasses[i]) = t
                         /\ \A j \in DOMAIN Subclasses :
                               QueueTypeAttr(Subclasses[j]) = t => j <= i]]]

\* the queue names asked for: ScraperFactory's, and another
ResolveNames == {"llm-queue", "a"}

\* a caller imports get_queue and calls it: the module is executed first
\* unless an earlier import went through, and when that raises, the caller
\* gets the exception and no queue
UseGetQueue(name, type) ==
    IF imported = "ok" THEN GetQueue(name, type)
    ELSE IF BuildRegistry.ok
    THEN /\ UNCHANGED notFactory
         /\ imported' = "ok"
         /\ QUEUE_CLASSES' = BuildRegistry.reg
         /\ UNCHANGED <<redis_queue_url, factoryCalls, instances, objs, returned>>
    ELSE /\ UNCHANGED notFactory
         /\ Len(factoryCalls) < MaxCalls
         /\ imported' = "AttributeError"
         /\ factoryCalls' = Append(factoryCalls,
               [name |-> name, type |-> type, env |-> redis_queue_url,
                out |-> "AttributeError", made |-> 0, registered |-> FALSE,
                inst |-> NoObj])
         /\ UNCHANGED <<QUEUE_CLASSES, redis_queue_url, instances, objs, returned>>

ResolveInit ==
    /\ QUEUE_CLASSES = NoRegistry /\ redis_queue_url \in EnvUrls /\ FactoryStart
    /\ imported = "no"

ResolveStep == \E name \in ResolveNames, type \in QueueTypes : UseGetQueue(name, type)

(***************************************************************************)
(* Specifications. Each one runs one part of the program and leaves the    *)
(* rest of the state as constructed.                                       *)
(***************************************************************************)
\* the workers use one queue instance, of either backend
\* the parts a specification does not run stay as they start
RestIdle ==
    /\ TextIdle /\ ScrapeIdle /\ NewsIdle /\ PipelineIdle /\ FactoryIdle
    /\ CallsStart /\ ProviderFactoryStart /\ ExtractIdle /\ RedisStart
    /\ HandlesStart

InitQueue == QueueInit /\ SingletonStart /\ ProviderIdle /\ RestIdle

SpecQueue == InitQueue /\ [][QueueStep]_vars

\* queue constructors are called one after the other
InitSingleton ==
    backend = "list" /\ QueueStart /\ SingletonStart /\ ProviderIdle /\ RestIdle

SpecSingleton == InitSingleton /\ [][SingletonStep]_vars

\* one call of Summarizer.summarize
InitSummarize ==
    backend = "list" /\ QueueStart /\ SingletonStart /\ ProviderInit /\ RestIdle

SpecSummarize == InitSummarize /\ [][SummarizeStep]_vars

\* the parts the specifications above run, as they start
CoreIdle ==
    /\ backend = "list" /\ QueueStart /\ SingletonStart /\ ProviderIdle
    /\ CallsStart /\ ProviderFactoryStart /\ ExtractIdle /\ RedisStart
    /\ HandlesStart

\* one call of Summarizer.normalize_text
InitNormalize ==
    CoreIdle /\ TextInit /\ ScrapeIdle /\ NewsIdle /\ PipelineIdle /\ FactoryIdle

SpecNormalize == InitNormalize /\ [][NormalizeCall]_vars

\* one run of ScraperFactory.scrape
InitScrape ==
    CoreIdle /\ TextIdle /\ ScrapeInit /\ NewsIdle /\ PipelineIdle /\ FactoryIdle

SpecScrape == InitScrape /\ [][ScrapeStep]_vars

\* one comparison of two News
InitNews ==
    CoreIdle /\ TextIdle /\ ScrapeIdle /\ NewsInit /\ PipelineIdle /\ FactoryIdle

SpecNews == InitNews /\ [][Compare]_vars

\* records on their way through the pipeline
InitPipeline ==
    CoreIdle /\ TextIdle /\ ScrapeIdle /\ NewsIdle /\ PipelineInit /\ FactoryIdle

SpecPipeline == InitPipeline /\ [][PipelineStep]_vars

\* calls of get_queue
InitFactory ==
    CoreIdle /\ TextIdle /\ ScrapeIdle /\ NewsIdle /\ PipelineIdle /\ FactoryInit

SpecFactory == InitFactory /\ [][FactoryStep]_vars

\* callers of get_queue, from the import of the factory module on
InitResolve ==
    CoreIdle /\ TextIdle /\ ScrapeIdle /\ NewsIdle /\ PipelineIdle /\ ResolveInit

SpecResolve == InitResolve /\ [][ResolveStep]_vars

\* RedisQueue objects from their construction to their first command
InitRedis ==
    CoreIdle /\ TextIdle /\ ScrapeIdle /\ NewsIdle /\ PipelineIdle /\ FactoryIdle

SpecRedis == InitRedis /\ [][RedisStep]_vars

\* the methods of one queue of either backend, called one at a time
InitCalls == QueueInit /\ SingletonStart /\ ProviderIdle /\ RestIdle

SpecCalls == InitCalls /\ [][CallsStep]_vars

\* calls of ProviderFactory.get_provider
InitProviderFactory ==
    CoreIdle /\ TextIdle /\ ScrapeIdle /\ NewsIdle /\ PipelineIdle /\ FactoryIdle

SpecProviderFactory == InitProviderFactory /\ [][ProviderFactoryStep]_vars

\* calls of Summarizer.extract_json
InitExtract ==
    /\ backend = "list" /\ QueueStart /\ SingletonStart /\ ProviderIdle
    /\ CallsStart /\ ProviderFactoryStart /\ ExtractInit /\ RedisStart
    /\ HandlesStart
    /\ TextIdle /\ ScrapeIdle /\ NewsIdle /\ PipelineIdle /\ FactoryIdle

SpecExtract == InitExtract /\ [][ExtractCall]_vars

\* ListQueue handles, constructed and used by one caller at a time
InitHandles ==
    CoreIdle /\ TextIdle /\ ScrapeIdle /\ NewsIdle /\ PipelineIdle /\ FactoryIdle

SpecHandles == InitHandles /\ [][HandlesStep]_vars

\* queue constructors called by several workers at the same time
InitConstruct ==
    CoreIdle /\ TextIdle /\ ScrapeIdle /\ NewsIdle /\ PipelineIdle /\ FactoryIdle

SpecConstruct == InitConstruct /\ [][ConstructStep]_vars

(***************************************************************************)
(* Claims about the queue backends.                                        *)
(***************************************************************************)
TakenValues == TakenVia(taken, {"deq", "gen"})

\* C1: FIFO through dequeue, for both backends. With no clear() and no item
\* handed out by a generator, the values dequeue() has returned (None left
\* out) are a prefix of the items enqueued, in enqueue order.
C1_DequeueFIFO ==
    (~cleared /\ TakenVia(taken, {"gen"}) = <<>>)
        => IsPrefix(TakenVia(taken, {"deq"}), enqueued)

\* two different items went through RedisQueue.dequeue()
C1_Witness ==
    /\ backend = "redis" /\ ~cleared
    /\ TakenVia(taken, {"gen"}) = <<>>
    /\ Len(taken) = 2 /\ taken[1].val # taken[2].val

\* C2: FIFO through dequeue_generator, for both backends. A generator that
\* began on a queue holding x1..xn, nothing taken before, and that drained
\* it with no other user of the queue in between, has yielded x1..xn in
\* enqueue order.
C2_GeneratorFIFO ==
    \A w \in Workers :
        (gen[w] = "ended" /\ sole[w]) => TakenVia(taken, {"gen"}) = enqueued

\* the same statement for the in-process backend alone
C2_ListGeneratorFIFO == backend = "list" => C2_GeneratorFIFO

\* C4: no double-delivery. For every value, the consumers were handed no
\* more occurrences of it than were enqueued.
C4_NoDoubleDelivery ==
    \A x \in Items : Count(TakenValues, x) <= Count(enqueued, x)

\* two ListQueue consumers raced for the last item: one was handed it, the
\* other is past the emptiness test and about to pop
C4_Witness ==
    /\ backend = "list"
    /\ store = <<>> /\ Len(taken) >= 1
    /\ \E w \in Workers : pc[w] = "dq_pop"

\* worker w's dequeue() raises: its popleft() finds the deque emptied since
\* its emptiness test
PopRaises(w) ==
    backend = "list" /\ pc[w] = "dq_pop" /\ store = <<>> /\ pc'[w] = "idle"

\* worker w's generator yields None: the dequeue() it called after its own
\* test of the deque found the deque empty
YieldsNone(w) ==
    /\ backend = "list" /\ gen[w] = "running"
    /\ pc[w] = "dq_check" /\ store = <<>> /\ pc'[w] = "gen_test"

\* C33: in-process backend under concurrent consumers. In every interleaving
\* of the workers' dequeue() and dequeue_generator() steps on one ListQueue,
\* no dequeue() raises and no generator yields None.
C33_ConcurrentConsumers ==
    [][\A w \in Workers : ~PopRaises(w) /\ ~YieldsNone(w)]_vars

(***************************************************************************)
(* Claims about the queue methods, read off the history of calls.          *)
(***************************************************************************)
\* call i handed an item to its caller
Delivered(i) == calls[i].op \in {"dequeue", "next"} /\ calls[i].ret \in Items

\* the last clear() among the first i calls (0: none)
LastClear(i) ==
    LET cs == {j \in 1..i : calls[j].op = "clear"} IN
    IF cs = {} THEN 0 ELSE CHOOSE j \in cs : \A k \in cs : k <= j

\* after call i: the items enqueued less the items delivered since the queue
\* was created or last cleared
Balance(i) ==
    Cardinality({j \in (LastClear(i) + 1)..i : calls[j].op = "enqueue"})
    - Cardinality({j \in (LastClear(i) + 1)..i : Delivered(j)})

\* C21: dequeue() on an empty queue returns None without raising and leaves
\* the queue as it was: size() is still 0, and an enqueue followed by a
\* dequeue then returns the item enqueued.
C21_DequeueOnEmpty ==
    \A i \in DOMAIN calls :
        (calls[i].op = "dequeue" /\ Balance(i - 1) = 0)
            => /\ calls[i].ret = None
               /\ calls[i].size = 0
               /\ (/\ i + 2 <= Len(calls)
                   /\ calls[i + 1].op = "enqueue"
                   /\ calls[i + 2].op = "dequeue")
                      => calls[i + 2].ret = calls[i + 1].arg

\* on either backend: a dequeue() that found the queue empty, then an
\* enqueue, then a dequeue()
C21_Witness ==
    \E i \in DOMAIN calls :
        /\ i + 2 <= Len(calls) /\ i > 2
        /\ calls[i].op = "dequeue" /\ Balance(i - 1) = 0 /\ calls[i].ret = None
        /\ calls[i + 1].op = "enqueue" /\ calls[i + 2].op = "dequeue"

\* the calls g+1..g+k are all next()
AllNext(g, k) == \A j \in (g + 1)..(g + k) : calls[j].op = "next"

\* C23: dequeue_generator terminates and drains. A generator made on a queue
\* holding n items and then pulled with no other call in between yields an
\* item (never None) at each of its first n pulls and ends at the next one,
\* leaving the queue empty; made on an empty queue it ends at its first pull.
C23_GeneratorDrains ==
    \A g \in DOMAIN calls :
        calls[g].op = "generator" =>
            \A k \in 1..(Len(calls) - g) :
                AllNext(g, k) =>
                    /\ k <= Balance(g) => calls[g + k].ret \in Items
                    /\ k > Balance(g) =>
                          calls[g + k].ret = StopIteration /\ calls[g + k].size = 0

\* a generator made on a queue of two items gave two items and then ended
C23_Witness ==
    \E g \in DOMAIN calls :
        /\ calls[g].op = "generator" /\ Balance(g) = 2
        /\ Len(calls) = g + 3 /\ AllNext(g, 3)
        /\ calls[g + 3].ret = StopIteration

\* a generator made on an empty queue ended at its first pull
C23_WitnessEmpty ==
    \E g \in DOMAIN calls :
        /\ calls[g].op = "generator" /\ Balance(g) = 0
        /\ Len(calls) > g /\ calls[g + 1].op = "next"
        /\ calls[g + 1].ret = StopIteration

\* the pull at which the generator made at call g ended (0: not yet)
EndOf(g) ==
    LET es == {j \in (g + 1)..Len(calls) :
                  calls[j].op = "next" /\ calls[j].ret = StopIteration} IN
    IF es = {} THEN 0 ELSE CHOOSE j \in es : \A k \in es : j <= k

\* no one but the generator took items between the calls g and e
OnlyProducers(g, e) == \A j \in (g + 1)..(e - 1) : calls[j].op \in {"enqueue", "next"}

\* C24: dequeue_generator reads the live queue. With producers only beside
\* it, every item enqueued after the generator was made and before the pull
\* at which it ended was yielded by a later pull of that generator (for every
\* item, as many yields as enqueues); after that pull every pull ends at
\* once, whatever was enqueued since.
C24_GeneratorReadsLive ==
    \A g \in DOMAIN calls :
        (calls[g].op = "generator" /\ EndOf(g) # 0) =>
            /\ OnlyProducers(g, EndOf(g)) =>
                  /\ \A j \in (g + 1)..(EndOf(g) - 1) :
                        calls[j].op = "enqueue" =>
                            \E k \in (j + 1)..(EndOf(g) - 1) :
                                calls[k].op = "next" /\ calls[k].ret = calls[j].arg
                  /\ \A x \in Items :
                        Cardinality({k \in (g + 1)..(EndOf(g) - 1) :
                                        calls[k].op = "next" /\ calls[k].ret = x})
                        >= Cardinality({j \in (g + 1)..(EndOf(g) - 1) :
                                           calls[j].op = "enqueue" /\ calls[j].arg = x})
            /\ \A k \in (EndOf(g) + 1)..Len(calls) :
                  calls[k].op = "next" => calls[k].ret = StopIteration

\* the generator gave an item, another was enqueued while it was suspended,
\* and the next pull gave that one before the generator ended
C24_Witness ==
    \E g \in DOMAIN calls :
        /\ calls[g].op = "generator" /\ Len(calls) = g + 4
        /\ calls[g + 1].op = "next" /\ calls[g + 1].ret \in Items
        /\ calls[g + 2].op = "enqueue"
        /\ calls[g + 3].op = "next" /\ calls[g + 3].ret = calls[g + 2].arg
        /\ EndOf(g) = g + 4

\* the generator ended, an item was enqueued, and a later pull ended at once
C24_WitnessLate ==
    \E g \in DOMAIN calls :
        /\ calls[g].op = "generator" /\ EndOf(g) # 0
        /\ \E j \in (EndOf(g) + 1)..Len(calls) : calls[j].op = "enqueue"
        /\ calls[Len(calls)].op = "next" /\ calls[Len(calls)].size > 0

\* C25: size accounting. After every call size() is the number of items
\* enqueued less the number delivered by dequeue and the generator since the
\* queue was created or last cleared, and is not negative; right after
\* clear() it is 0 and a dequeue() returns None.
C25_SizeAccounting ==
    \A i \in DOMAIN calls :
        /\ calls[i].size = Balance(i)
        /\ calls[i].size >= 0
        /\ calls[i].op = "clear" =>
              /\ calls[i].size = 0
              /\ (i < Len(calls) /\ calls[i + 1].op = "dequeue")
                    => calls[i + 1].ret = None

\* the durable backend held two items, one was delivered, the queue was
\* cleared and a dequeue() followed
C25_Witness ==
    /\ backend = "redis"
    /\ \E i \in DOMAIN calls :
          /\ i > 3 /\ i < Len(calls)
          /\ calls[i].op = "clear" /\ calls[i - 1].size = 1 /\ Delivered(i - 1)
          /\ calls[i + 1].op = "dequeue" /\ calls[i + 1].ret = None

(***************************************************************************)
(* Claims about the singleton registry.                                    *)
(***************************************************************************)
\* C3: per-name singleton. Two constructor calls are given the same instance
\* exactly when they name the same class and ask for the same queue name
\* (by position, by keyword or by default), the instance given is of the
\* class and name asked for, and no two queue objects share class and name.
C3_PerNameSingleton ==
    /\ \A r1, r2 \in returned :
          (r1.asked.cls = r2.asked.cls /\ r1.asked.name = r2.asked.name)
              <=> r1.inst = r2.inst
    /\ \A r \in returned :
          r.inst.cls = r.asked.cls /\ r.inst.queue_name = r.asked.name
    /\ \A o1, o2 \in objs :
          (o1.cls = o2.cls /\ o1.queue_name = o2.queue_name) => o1 = o2

\* one ListQueue instance was given to a positional, a keyword and a default
\* call; another name and the other class were given other instances
C3_Witness ==
    /\ \E r1, r2, r3 \in returned :
          /\ r1.asked.form = "positional" /\ r2.asked.form = "keyword"
          /\ r3.asked.form = "omitted"
          /\ r1.inst = r2.inst /\ r2.inst = r3.inst
    /\ \E r1, r2 \in returned :
          r1.asked.cls = r2.asked.cls /\ r1.asked.name # r2.asked.name
    /\ \E r1, r2 \in returned :
          r1.asked.cls # r2.asked.cls /\ r1.asked.name = r2.asked.name

(***************************************************************************)
(* Claims about queue constructors called by several workers.              *)
(***************************************************************************)
\* the instance registered under an object's class and name
Live(o) == Given(o.cls, o.queue_name, instances)

\* C31: singleton under concurrent construction. Whatever way the workers'
\* constructor calls interleave, calls that name the same class and the same
\* queue name are given the same instance, one object at most is made per
\* (class, name), and an object that holds an enqueued item is the instance
\* the registry has under its class and name.
C31_ConcurrentSingleton ==
    /\ \A r1, r2 \in returned :
          (r1.asked.cls = r2.asked.cls /\ r1.asked.name = r2.asked.name)
              => r1.inst = r2.inst
    /\ \A o1, o2 \in objs :
          (o1.cls = o2.cls /\ o1.queue_name = o2.queue_name) => o1 = o2
    /\ \A o \in DOMAIN queues : queues[o] # <<>> => Live(o) = o

\* what holds of the code: a call is given an instance of the class and name
\* it asked for, and the registry holds, under each (class, name), an object
\* made for that class and name
C31_GivenWhatWasAsked ==
    /\ \A r \in returned :
          r.inst \in objs /\ r.inst.cls = r.asked.cls /\ r.inst.queue_name = r.asked.name
    /\ \A k \in DOMAIN instances :
          instances[k] \in objs /\ instances[k].cls = k[1] /\ instances[k].queue_name = k[2]

\* two workers were given two ListQueue objects of one name, and an item was
\* enqueued into the one the registry no longer holds
C31_ItemInReplacedInstance ==
    \E r1, r2 \in returned :
        /\ r1.asked = r2.asked /\ r1.inst # r2.inst
        /\ r1.inst \in DOMAIN queues /\ queues[r1.inst] # <<>>
        /\ Live(r1.inst) = r2.inst

(***************************************************************************)
(* Claims about the handles of ListQueue, one caller at a time.            *)
(***************************************************************************)
\* the items a history of calls enqueued under a name (op = "enqueue") or
\* took from under it (op = "dequeue"), through whatever handle, in order
RECURSIVE OpVals(_, _, _)
OpVals(h, name, op) ==
    IF h = <<>> THEN <<>>
    ELSE IF Head(h).op = op /\ Head(h).obj.queue_name = name /\ Head(h).val # None
         THEN <<Head(h).val>> \o OpVals(Tail(h), name, op)
         ELSE OpVals(Tail(h), name, op)

\* the items enqueued under a name and not taken yet, in enqueue order
HeldUnder(h, name) ==
    SubSeq(OpVals(h, name, "enqueue"),
           Len(OpVals(h, name, "dequeue")) + 1, Len(OpVals(h, name, "enqueue")))

\* C32: repeated construction preserves contents. After any sequence of
\* constructor calls, enqueues and dequeues made one at a time, the instance
\* registered under a name holds the items enqueued under that name and not
\* dequeued yet, in enqueue order, whatever constructor calls came in
\* between and whichever handles were used; the items dequeued under a name
\* are the first items enqueued under it; and dequeue gave None only when
\* nothing enqueued under that name was left.
C32_RepeatedConstructionPreservesContents ==
    \A name \in CtorNames :
        /\ IsPrefix(OpVals(handleOps, name, "dequeue"), OpVals(handleOps, name, "enqueue"))
        /\ Registered("ListQueue", name) =>
              queues[Given("ListQueue", name, instances)] = HeldUnder(handleOps, name)
        /\ \A i \in DOMAIN handleOps :
              (/\ handleOps[i].op = "dequeue" /\ handleOps[i].val = None
               /\ handleOps[i].obj.queue_name = name)
                  => HeldUnder(SubSeq(handleOps, 1, i - 1), name) = <<>>

\* an item was enqueued, the queue was constructed again under the same name
\* in another form, and the item was dequeued after that
C32_Witness ==
    /\ Len(handleOps) = 4
    /\ handleOps[1].op = "construct" /\ handleOps[2].op = "enqueue"
    /\ handleOps[3].op = "construct" /\ handleOps[4].op = "dequeue"
    /\ handleOps[3].obj = handleOps[2].obj
    /\ handleOps[4].val = handleOps[2].val
    /\ \E r1, r2 \in returned : r1.inst = r2.inst /\ r1.asked.form # r2.asked.form

\* dequeue under one name gave None while an item was held under the other
C32_WitnessOtherName ==
    \E i \in DOMAIN handleOps :
        /\ handleOps[i].op = "dequeue" /\ handleOps[i].val = None
        /\ \E name \in CtorNames :
              /\ name # handleOps[i].obj.queue_name
              /\ HeldUnder(SubSeq(handleOps, 1, i - 1), name) # <<>>

(***************************************************************************)
(* Claims about BaseLLMProvider.call and Summarizer.summarize.             *)
(***************************************************************************)
\* the requested model is not in the catalog
ModelAbsent == ~CheckModelExists(model, catalog)

\* every attempt of the call so far ended with ModelNotFoundError
OnlyModelNotFound ==
    excs # <<>> /\ \A i \in DOMAIN excs : excs[i] = "ModelNotFoundError"

\* C5: model-not-found propagates. When the requested model is absent from
\* the catalog and the call has ended for that reason, what the caller of
\* call observes is ModelNotFoundError itself.
C5_ModelNotFoundPropagates ==
    (provider = "base" /\ ppc = "done" /\ ModelAbsent /\ OnlyModelNotFound)
        => callOut = Raise("ModelNotFoundError")

\* C6: no generation without a model. While the requested model is absent
\* from the catalog, call has made no generation request.
C6_NoGenerationWhenAbsent ==
    (provider = "base" /\ ModelAbsent) => genCalls = 0

\* a call for an absent model ran to its end: the catalog was listed
\* without error on every attempt, and the caller was handed a failure
C6_Witness ==
    /\ provider = "base" /\ ModelAbsent
    /\ ppc = "done" /\ OnlyModelNotFound
    /\ callOut.kind = "raise"

\* C7: model-not-found is not retried. A call whose first attempt found the
\* model missing makes exactly one attempt: the catalog is listed once and
\* there is no backoff wait.
C7_ModelNotFoundNotRetried ==
    (provider = "base" /\ excs # <<>> /\ excs[1] = "ModelNotFoundError")
        => (attempts = 1 /\ checks = 1 /\ slept = <<>>)

\* C8: generation errors are absorbed. When the model exists and the
\* generation request raises, call has returned the empty string to its
\* caller: nothing is raised and no further attempt is made.
C8_GenerationErrorGivesEmpty ==
    (provider = "base" /\ genFailedAt # 0)
        => /\ ppc = "done"
           /\ callOut = Str(<<>>)
           /\ attempts = genFailedAt
           /\ ~ModelAbsent

\* the generation request raised and summarize went on with the empty string
C8_Witness ==
    /\ provider = "base" /\ genFailedAt = 1 /\ genCalls = 1
    /\ ppc = "done" /\ result.kind = "json"

\* C9 as stated: retry on transient failure. A call whose generation request
\* failed on the first attempt ends only after a second attempt.
C9_GenerationFailureRetried ==
    (provider = "base" /\ genFailedAt = 1 /\ ppc = "done") => attempts = MaxAttempts

\* C9, amended: an attempt that fails while listing the catalog is followed
\* by a second attempt after one backoff wait, and the failure reaches the
\* caller only if the second attempt fails too; a failed generation request
\* is not retried, call returns the empty string at once.
C9_ListingFailureRetried ==
    provider = "base" =>
        /\ (ppc = "done" /\ excs # <<>> /\ excs[1] = "APIError")
               => /\ attempts = MaxAttempts
                  /\ Len(slept) = 1
                  /\ callOut.kind = "raise" <=> Len(excs) = MaxAttempts
        /\ (ppc = "done" /\ callOut.kind = "raise") => Len(excs) = MaxAttempts
        /\ genFailedAt # 0
               => (ppc = "done" /\ attempts = genFailedAt /\ callOut = Str(<<>>))

\* the catalog listing failed on the first attempt, the second attempt went
\* through after a wait and its text was returned
C9_Witness ==
    /\ provider = "base" /\ ppc = "done"
    /\ excs = <<"APIError">> /\ attempts = 2 /\ Len(slept) = 1
    /\ callOut.kind = "str" /\ callOut.val # <<>>

\* C28: bounded attempts. Whatever the catalog check and the generation
\* request do, one invocation of BaseLLMProvider.call makes at most 2
\* attempts (each lists the catalog once and sends at most one generation
\* request); after a second failed attempt it does not wait again, and it
\* ends by returning a value or raising to its caller.
C28_BoundedAttempts ==
    provider = "base" =>
        /\ attempts <= 2
        /\ checks <= attempts /\ genCalls <= attempts
        /\ Len(excs) <= attempts /\ Len(slept) < 2
        /\ ppc = "done" =>
              \/ callOut.kind \in {"str", "None"} /\ Len(excs) < 2
              \/ callOut.kind = "raise" /\ Len(excs) = 2

\* both attempts failed, one on the catalog listing and one on a missing
\* model, and call raised after one wait
C28_Witness ==
    /\ provider = "base" /\ ppc = "done"
    /\ attempts = 2 /\ checks = 2 /\ Len(excs) = 2 /\ Len(slept) = 1
    /\ callOut.kind = "raise"

\* C10: summarize never raises. Whatever the provider does (a text, None,
\* RetryError, ModelNotFoundError or any other exception) and whatever
\* normalisation, extraction and parsing make of it, summarize returns a
\* value, and it is the empty mapping whenever a step of it raised.
C10_SummarizeNeverRaises ==
    /\ result.kind # "raise"
    /\ (result.kind # "pending" /\ SummarizeTry(callOut).kind = "raise")
           => /\ result.kind = "json"
              /\ result.val.type = "dict"
              /\ DOMAIN result.val.v = {}

\* the provider raised and summarize has returned
C10_Witness ==
    /\ callOut.kind = "raise"
    /\ result.kind = "json"

\* the provider answered None, normalize_text raised TypeError, and
\* summarize has returned
C10_WitnessNone ==
    /\ provider = "base" /\ callOut.kind = "None"
    /\ result.kind = "json"

\* the provider answered with an empty tagged block, extract_json raised
\* AttributeError, and summarize has returned
C10_WitnessExtract ==
    /\ callOut.kind = "str"
    /\ SummarizeTry(callOut).kind = "raise"
    /\ SummarizeTry(callOut).val = <<"AttributeError">>
    /\ result.kind = "json"

(***************************************************************************)
(* Claims about ProviderFactory.get_provider.                              *)
(***************************************************************************)
Unknown(c) == c.name \notin DOMAIN PROVIDERS

\* C22: selecting a provider by a name that is not in the registry
\* raises an error of a kind of its own, which is not Model-Not-Found.
C22_ProviderNotFoundDistinct ==
    \A i \in DOMAIN providerCalls :
        Unknown(providerCalls[i]) =>
            /\ providerCalls[i].out.kind = "raise"
            /\ providerCalls[i].out.val # <<"ModelNotFoundError">>

\* what get_provider does: a name that is not in the registry raises
\* ModelNotFoundError, the error kind of a missing model; a name of the
\* registry gives its provider class.
C22_UnknownProviderOutcome ==
    \A i \in DOMAIN providerCalls :
        /\ providerCalls[i].out.kind = (IF Unknown(providerCalls[i]) THEN "raise" ELSE "class")
        /\ Unknown(providerCalls[i]) => providerCalls[i].out.val = <<"ModelNotFoundError">>
        /\ ~Unknown(providerCalls[i]) =>
              providerCalls[i].out.val = <<PROVIDERS[providerCalls[i].name]>>

\* a provider of the registry was selected, then one that is not in it
C22_UnknownProviderAsked ==
    /\ Len(providerCalls) = 2
    /\ providerCalls[1].name = "openai" /\ providerCalls[1].out.kind = "class"
    /\ providerCalls[2].name = "anthropic" /\ providerCalls[2].out.kind = "raise"

(***************************************************************************)
(* Claims about the text steps of Summarizer.summarize.                    *)
(***************************************************************************)
\* the value is the empty mapping {}
IsEmptyDict(r) == r.kind = "json" /\ r.val.type = "dict" /\ DOMAIN r.val.v = {}

\* t holds no fenced block: no two fences one after the other
NoFencedBlock(t) ==
    ~\E i, j \in 1..Len(t) :
        HasAt(t, Fence, i) /\ HasAt(t, Fence, j) /\ j >= i + Len(Fence)

\* what the first fenced block of t wraps, as written in t
BlockContent(t) == Strip(SearchFrom(t, 1).group)

\* t holds a fenced block and what the first one wraps is not valid JSON
BlockNotJson(t) ==
    SearchFrom(t, 1).found /\ JsonLoads(BlockContent(t)).kind = "raise"

\* C11: degrade-to-empty on unparseable output. When the provider's text has
\* no fenced block, or has a fenced block whose content is not valid JSON,
\* summarize has returned the empty mapping and raised nothing.
C11_DegradeToEmpty ==
    (/\ callOut.kind = "str" /\ result.kind # "pending"
     /\ NoFencedBlock(callOut.val) \/ BlockNotJson(callOut.val))
        => IsEmptyDict(result)

\* the provider's text had a fenced block that wraps malformed JSON, and
\* summarize has returned
C11_Witness ==
    /\ callOut.kind = "str" /\ result.kind = "json"
    /\ BlockNotJson(callOut.val) /\ BlockContent(callOut.val) # <<>>

\* the provider's text was not empty and had no fenced block, and summarize
\* has returned
C11_WitnessNoFence ==
    /\ callOut.kind = "str" /\ result.kind = "json"
    /\ callOut.val # <<>> /\ NoFencedBlock(callOut.val)

\* t with every whitespace character that repeats the character before it
\* left out
RunsCollapsed(t) ==
    LET kept == {i \in 1..Len(t) : ~(i > 1 /\ t[i] \in Whitespace /\ t[i - 1] = t[i])}
        nth(n) == CHOOSE i \in kept : Cardinality({j \in kept : j <= i}) = n
    IN  [n \in 1..Cardinality(kept) |-> t[nth(n)]]

\* t from its first to its last character that is not whitespace
Trimmed(t) ==
    LET solid == {i \in 1..Len(t) : t[i] \notin Whitespace} IN
    IF solid = {} THEN <<>>
    ELSE SubSeq(t, CHOOSE i \in solid : \A j \in solid : i <= j,
                   CHOOSE i \in solid : \A j \in solid : j <= i)

\* a JSON value with the repeated whitespace of its strings left out
RECURSIVE CollapseJson(_)
CollapseJson(v) ==
    IF v.type = "str" THEN JStr(RunsCollapsed(v.v))
    ELSE IF v.type = "list" THEN JList([i \in DOMAIN v.v |-> CollapseJson(v.v[i])])
    ELSE IF v.type = "dict"
    THEN [type |-> "dict", v |-> [k \in DOMAIN v.v |-> CollapseJson(v.v[k])]]
    ELSE v

\* what the pattern matches at position i of t is a block tagged json that
\* wraps a JSON object
TaggedObject(m) ==
    /\ m.found /\ m.alt = "json"
    /\ JsonLoads(Strip(m.group)).kind = "json"
    /\ JsonLoads(Strip(m.group)).val.type = "dict"

C12_WitnessExact ==
    /\ callOut.kind = "str" /\ result.kind = "json"
    /\ TaggedObject(SearchFrom(callOut.val, 1))
    /\ result.val = JsonLoads(BlockContent(callOut.val)).val
    /\ DOMAIN result.val.v # {}

\* C13: normalization semantics. normalize_text(t) is t with every run of
\* one whitespace character repeated replaced by one occurrence of it, then
\* stripped of leading and trailing whitespace; a text with no whitespace
\* character repeated and none at its ends, mixed whitespace in its interior
\* included, comes back unchanged.
C13_NormalizationSemantics ==
    normalizedText.kind = "str" =>
        /\ normalizedText.val = Trimmed(RunsCollapsed(text.val))
        /\ (RunsCollapsed(text.val) = text.val /\ Trimmed(text.val) = text.val)
               => normalizedText.val = text.val

\* a text with two spaces in a row followed by a tab: the spaces became one,
\* the space and the tab stayed
C13_Witness ==
    /\ text = Str(<<"a", " ", " ", "\t", "a">>)
    /\ normalizedText = Str(<<"a", " ", "\t", "a">>)

\* C34: result shape. Whatever text the provider returns, what summarize
\* returns is a mapping, the empty one or the parsed JSON object: never a
\* list, a number or a string, even when the fenced block holds valid JSON
\* that is not an object.
C34_ResultShape ==
    result.kind = "json" => result.val.type = "dict"

\* what holds of the code: summarize returns a JSON value, which is the
\* empty mapping or the value json.loads gave for the extracted text,
\* whatever its type
C34_ResultIsParsedValue ==
    result.kind \in {"pending", "json"}
    /\ (result.kind = "json" /\ result.val # EmptyDict)
           => /\ callOut.kind = "str"
              /\ result = JsonLoads(ExtractJson(NormalizeText(callOut).val).val)

\* the fenced block held [1], 2 or "a", and summarize returned the list, the
\* number or the string
C34_NonMappingReturned ==
    /\ callOut.kind = "str"
    /\ result.kind = "json" /\ result.val.type # "dict"

(***************************************************************************)
(* Claims about Summarizer.extract_json.                                   *)
(***************************************************************************)
\* the first segment of one of the kinds (0: none)
FirstOf(kinds) ==
    LET is == {i \in DOMAIN segments : segments[i].kind \in kinds} IN
    IF is = {} THEN 0 ELSE CHOOSE i \in is : \A j \in is : i <= j

\* C27: fenced-block selection. extract_json gives the trimmed content of
\* the first fenced block tagged json if the text has one, else the trimmed
\* content of the first fenced block of any kind, else None.
C27_FencedBlockSelection ==
    extractOut.kind # "pending" =>
        extractOut =
            IF FirstOf({"json"}) # 0
            THEN Str(Strip(segments[FirstOf({"json"})].content))
            ELSE IF FirstOf({"plain"}) # 0
            THEN Str(Strip(segments[FirstOf({"plain"})].content))
            ELSE NoneVal

\* what extract_json does: it takes the first fenced block of the text,
\* tagged or not, and gives its trimmed content, but raises AttributeError
\* when that block is tagged json and has nothing in it; None without a block
C27_LeftmostBlock ==
    extractOut.kind # "pending" =>
        LET f == FirstOf({"json", "plain"}) IN
        IF f = 0 THEN extractOut.kind = "None"
        ELSE IF segments[f] = Tagged(<<>>)
        THEN extractOut.kind = "raise" /\ extractOut.val = <<"AttributeError">>
        ELSE extractOut.kind = "str" /\ extractOut.val = Strip(segments[f].content)

\* a block without tag comes before a block tagged json, and extract_json
\* gave the content of the former
C27_PlainBeforeTagged ==
    /\ extractOut.kind = "str"
    /\ FirstOf({"plain"}) # 0 /\ FirstOf({"plain"}) < FirstOf({"json"})
    /\ extractOut.val = Strip(segments[FirstOf({"plain"})].content)

(***************************************************************************)
(* Claims about the scraper registry.                                      *)
(***************************************************************************)
\* what the scrapers contribute, in order, given what each _scrape did:
\* nothing when it raised, else its posts up to the limit
RECURSIVE Kept(_, _)
Kept(rs, lim) ==
    IF rs = <<>> THEN <<>>
    ELSE (IF Head(rs).raised THEN <<>> ELSE Truncate(Head(rs).batch, lim))
             \o Kept(Tail(rs), lim)

\* C14: scraper isolation. A run of ScraperFactory.scrape that has ended has
\* not raised, has run every scraper, and has returned and enqueued, in
\* order, the posts (up to the limit) of every scraper whose _scrape did not
\* raise; a scraper whose _scrape raised contributed nothing.
C14_ScraperIsolation ==
    scrapePc = "done" =>
        /\ scrapeOut.kind = "list"
        /\ Len(ran) = NScrapers
        /\ scrapeOut.val = Kept(ran, limit)
        /\ store = [i \in DOMAIN scrapeOut.val |-> ModelDumpJson(scrapeOut.val[i])]

\* the first scraper raised, the next ones returned posts, and the run has
\* ended with their posts
C14_Witness ==
    /\ scrapePc = "done" /\ Len(ran) = NScrapers
    /\ ran[1].raised
    /\ \A i \in 2..NScrapers : ~ran[i].raised /\ ran[i].batch # <<>>
    /\ scrapeOut.kind = "list" /\ Len(scrapeOut.val) >= NScrapers - 1
    /\ Len(store) = Len(scrapeOut.val)

\* the first n elements of l, all of l when it has fewer
RECURSIVE FirstN(_, _)
FirstN(l, n) ==
    IF n = 0 \/ l = <<>> THEN <<>> ELSE <<Head(l)>> \o FirstN(Tail(l), n - 1)

\* what scraper i handed to the factory: nothing when its _scrape raised
Results(rs, i) == IF rs[i].raised THEN <<>> ELSE rs[i].batch

\* the results of the scrapers 1..k, each cut to the limit, one after another
RECURSIVE Combined(_, _, _)
Combined(rs, k, lim) ==
    IF k = 0 THEN <<>>
    ELSE Combined(rs, k - 1, lim)
         \o (IF lim = None THEN Results(rs, k) ELSE FirstN(Results(rs, k), lim))

FromScraper(l, i) == Cardinality({j \in DOMAIN l : l[j].source = i})

\* C26: orchestrator output. When ScraperFactory.scrape(limit) has returned,
\* the queue holds, in order, the serialization of every record of the
\* returned sequence, and that sequence is the results of the scrapers in
\* scraper order, each cut to its first `limit` records when limit is set
\* (no scraper gives more than limit) and whole when limit is None.
C26_OrchestratorOutput ==
    scrapePc = "done" =>
        /\ scrapeOut.kind = "list"
        /\ scrapeOut.val = Combined(ran, Len(ran), limit)
        /\ Len(store) = Len(scrapeOut.val)
        /\ \A j \in DOMAIN store : store[j] = ModelDumpJson(scrapeOut.val[j])
        /\ \A i \in Scrapers :
              IF limit = None
              THEN FromScraper(scrapeOut.val, i) = Len(Results(ran, i))
              ELSE FromScraper(scrapeOut.val, i) <= limit

\* with limit 1, every scraper found MaxBatch posts and the run returned one
\* of each
C26_Witness ==
    /\ scrapePc = "done" /\ limit = 1 /\ Len(ran) = NScrapers
    /\ \A i \in Scrapers : ~ran[i].raised /\ Len(ran[i].batch) = MaxBatch
    /\ Len(scrapeOut.val) = NScrapers /\ Len(store) = NScrapers

\* with no limit, every post found was returned and enqueued
C26_WitnessNoLimit ==
    /\ scrapePc = "done" /\ limit = None /\ Len(ran) = NScrapers
    /\ \A i \in Scrapers : ~ran[i].raised /\ Len(ran[i].batch) = MaxBatch
    /\ Len(store) = NScrapers * MaxBatch

(***************************************************************************)
(* Claims about the Article Record.                                        *)
(***************************************************************************)
SamePair == newsA.id = newsB.id /\ newsA.source = newsB.source

\* C15: record identity. Two News are equal iff their (id, source) pairs
\* match, and the pairs match iff the hash keys are equal; the content
\* fields affect neither.
C15_RecordIdentity ==
    compared.kind = "done" =>
        /\ compared.eq <=> SamePair
        /\ SamePair <=> compared.hashA = compared.hashB

\* the part of it that holds: two News are equal iff their (id, source)
\* pairs match, and News with matching pairs have equal hash keys, whatever
\* their content fields
C15_RecordIdentityOneWay ==
    compared.kind = "done" =>
        /\ compared.eq <=> SamePair
        /\ SamePair => compared.hashA = compared.hashB

\* two News with the same id and source and different titles compared equal
\* and hashed alike
C15_Witness ==
    /\ compared.kind = "done"
    /\ SamePair /\ newsA.title # newsB.title
    /\ compared.eq /\ compared.hashA = compared.hashB

\* two News with different (id, source) pairs share the hash key
C15_WitnessCollision ==
    /\ compared.kind = "done"
    /\ ~SamePair /\ ~compared.eq
    /\ compared.hashA = compared.hashB

C17_UnsummarizedDispatchable ==
    \A r \in Records :
        (/\ stage[r] = "dispatched" /\ newsSummary[r].kind = "None"
         /\ webhook_url # "" /\ network = "up")
            => sendOut[r].kind = "response"

\* the direction of a channel class, and the operation of a direction
Direction(cls) == IF cls = "SlackDispatchChannel" THEN "outbound" ELSE "inbound"
OperationOf(dir) == IF dir = "outbound" THEN "send" ELSE "receive"

\* C18: channel direction. Every call of the operation of the opposite
\* direction (receive on an outbound channel, send on an inbound channel)
\* has raised the channel-direction error.
C18_ChannelDirection ==
    \A c \in chanCalls :
        c.op # OperationOf(Direction(c.cls)) => c.out = "RuntimeError"

\* the half of it that holds: receive on an outbound channel has raised
C18_OutboundRejectsReceive ==
    \A c \in chanCalls :
        (Direction(c.cls) = "outbound" /\ c.op = "receive") => c.out = "RuntimeError"

BackendOf(type) == IF type = "list" THEN "ListQueue" ELSE "RedisQueue"

\* call i asked for a backend that is there: "list", or "redis" with
\* REDIS_QUEUE_URL set
Resolvable(i) ==
    \/ factoryCalls[i].type = "list"
    \/ factoryCalls[i].type = "redis" /\ factoryCalls[i].env = "valid"

\* calls i and j were given the queue of that class and name, the same one
ResolvedAlike(i, j) ==
    /\ factoryCalls[i].out = "instance"
    /\ factoryCalls[i].inst.cls = BackendOf(factoryCalls[i].type)
    /\ factoryCalls[i].inst.queue_name = factoryCalls[i].name
    /\ (factoryCalls[j].name = factoryCalls[i].name
        /\ factoryCalls[j].type = factoryCalls[i].type)
           => factoryCalls[j].inst = factoryCalls[i].inst

\* C29: backend resolution. Every call get_queue(name, "list"), and every
\* call get_queue(name, "redis") made with REDIS_QUEUE_URL set, has returned
\* the ListQueue, respectively the RedisQueue, of that name, and calls with
\* the same name and type have returned the same instance (so that every
\* ScraperFactory enqueues to the one "llm-queue").
C29_BackendResolution ==
    \A i \in DOMAIN factoryCalls :
        Resolvable(i) =>
            \A j \in DOMAIN factoryCalls : Resolvable(j) => ResolvedAlike(i, j)

\* the same statement for a registry that holds the backend asked for, which
\* is what get_queue does once QUEUE_CLASSES is there
C29_ResolvesWhenRegistered ==
    \A i \in DOMAIN factoryCalls :
        (Resolvable(i) /\ factoryCalls[i].type \in DOMAIN QUEUE_CLASSES) =>
            \A j \in DOMAIN factoryCalls : Resolvable(j) => ResolvedAlike(i, j)

\* two ScraperFactory objects were made, and neither was given a queue
C29_NoQueueResolved ==
    /\ Len(factoryCalls) = 2
    /\ \A i \in DOMAIN factoryCalls :
          /\ factoryCalls[i].name = "llm-queue" /\ factoryCalls[i].type = "list"
          /\ factoryCalls[i].out = "AttributeError"

(***************************************************************************)
(* Claims about the construction of the durable backend.                   *)
(***************************************************************************)
\* call i asked for a name that had no instance yet: __init__ ran
Constructing(i) ==
    \A j \in 1..(i - 1) :
        ~(redisCalls[j].out = "instance" /\ redisCalls[j].name = redisCalls[i].name)

\* C30: durable backend construction surfaces connectivity errors. A
\* constructor call of RedisQueue given an absent or unreachable url, for a
\* name that has no instance yet, has raised; no instance whose endpoint is
\* unreachable has been registered or returned; and no first enqueue or
\* dequeue has met the connection error.
C30_ConnectivitySurfacedAtConstruction ==
    /\ \A i \in DOMAIN redisCalls :
          /\ (redisCalls[i].url \in {"unset", "unreachable"} /\ Constructing(i))
                 => redisCalls[i].out = "raise"
          /\ redisCalls[i].out = "instance" => EndpointOf(redisCalls[i].inst) = "valid"
    /\ \A k \in DOMAIN instances : EndpointOf(instances[k]) = "valid"
    /\ \A c \in redisCommands : c.out = "ok"

\* what the constructor does: it raises on an absent url alone, and an
\* object made with an unreachable url meets the error at its first command
C30_OnlyAbsentUrlRaises ==
    /\ \A i \in DOMAIN redisCalls :
          redisCalls[i].out = "raise" <=> (redisCalls[i].url = "unset" /\ Constructing(i))
    /\ \A c \in redisCommands :
          c.out = "ConnectionError" <=> EndpointOf(c.inst) = "unreachable"

\* a RedisQueue was made and registered with an unreachable url, and its
\* first enqueue met the connection error
C30_ErrorDeferred ==
    \E c \in redisCommands :
        /\ c.op = "enqueue" /\ c.out = "ConnectionError"
        /\ redisCalls[MakerOf(c.inst)].out = "instance"
        /\ \E k \in DOMAIN instances : instances[k] = c.inst

====
